---- MODULE Spec2Model ----
(***************************************************************************)
(* A model of ffmpegio's argument resolution engine                        *)
(* (src/src/ffmpegio/configure.py).                                        *)
(*                                                                         *)
(* The FFmpeg argument structure (FFmpegArgs: inputs, outputs,             *)
(* global_options) is the state; every function of configure.py that the   *)
(* properties below are about is one action that rewrites it the way the   *)
(* Python code does.  What ffprobe would answer is part of the state       *)
(* (variable probe): it is chosen in the initial state and never changes.  *)
(*                                                                         *)
(* Python values: option values are strings (numbers are written as their  *)
(* decimal text: the code only moves them around), None is the string      *)
(* None below, option dicts are functions over their keys, and ordered     *)
(* dicts whose insertion order matters (out_labels, the stream maps) are   *)
(* sequences of [k, v] records.                                            *)
(***************************************************************************)
EXTENDS Integers, Sequences, FiniteSets, TLC

VARIABLES
    args,       \* FFmpegArgs: [inputs, outputs, global_options]
    probe,      \* what the probe adapter answers (per input / per filter)
    call,       \* the call being made: its name and its arguments
    pre,        \* args as it was when the last call started
    ret         \* what the last call returned (and the locals it resolved)

vars == <<args, probe, call, pre, ret>>

-----------------------------------------------------------------------------
(* Bounds of the model *)

\* filtergraphs listed in the filter_complex global option
MaxFg == 2
\* output pads of all the listed filtergraphs together
MaxPads == 3
\* input files
MaxInputs == 2
\* map specifiers a caller passes to resolve_raw_output_streams
MaxMaps == 2
\* streams of all the input files together
MaxStreams == 4

-----------------------------------------------------------------------------
(* Python values and dicts *)

None == "<None>"

EmptyDict == [k \in {} |-> None]

\* d.get(k, None)
Get(d, k) == IF k \in DOMAIN d THEN d[k] ELSE None

\* d[k] = v
Put(d, k, v) == (k :> v) @@ d

\* d.pop(k, None), the dict that is left
Del(d, k) == [x \in DOMAIN d \ {k} |-> d[x]]

\* {**a, **b}
Merge(a, b) == b @@ a

\* bool(v) of an option value
Truthy(v) == v # None /\ v # ""

\* v or s
Or(v, s) == IF Truthy(v) THEN v ELSE s

\* a Python key: an int and a str are never equal, whatever they look like
PyInt(n) == [t |-> "int", v |-> n]
PyStr(s) == [t |-> "str", v |-> s]
PyEq(a, b) == a.t = b.t /\ a.v = b.v

\* an insertion-ordered dict: a sequence of [k, v], k a Python key
ODictHas(d, key) == \E i \in 1..Len(d) : PyEq(d[i].k, key)

ODictSet(d, key, val) ==
    IF ODictHas(d, key)
    THEN [i \in 1..Len(d) |-> IF PyEq(d[i].k, key) THEN [k |-> key, v |-> val] ELSE d[i]]
    ELSE Append(d, [k |-> key, v |-> val])

ODictPop(d, key) == SelectSeq(d, LAMBDA e : ~PyEq(e.k, key))

\* f"out{n}"
FmtOut(n) == "out" \o ToString(n)

\* re.match(r"out(\d+)$", label): the set of N with label = out<N>
\* (labels of the model carry no leading zeros and no N above MaxPads + 2)
MatchOut(label) == {n \in 0..(MaxPads + 2) : FmtOut(n) = label}

-----------------------------------------------------------------------------
(* Filtergraph model: a filtergraph object is                              *)
(*   [outpads : sequence of [label, media], inlabels : sequence of labels] *)
(* outpads are its output pads in iteration order, label = None when the   *)
(* pad is unlabeled; inlabels are the labels of its input pads.            *)

\* fg.iter_output_pads(full_pad_index=True): the pad indices, in order
iter_output_pads(fg) == [k \in 1..Len(fg.outpads) |-> k]

\* fg.iter_output_pads(unlabeled_only=True, full_pad_index=True)
iter_unlabeled_output_pads(fg) ==
    SelectSeq(iter_output_pads(fg), LAMBDA k : fg.outpads[k].label = None)

\* fg.get_label(outpad=idx)
get_label(fg, idx) == fg.outpads[idx].label

\* fg.add_label(label, outpad=idx)
add_label(fg, label, idx) ==
    [fg EXCEPT !.outpads[idx].label = label]

\* fg.iter_input_labels()
iter_input_labels(fg) == fg.inlabels

\* filter.get_pad_media_type("output", pad_id) of pad ref = [fg, pad]
get_pad_media_type(fcs, ref) == fcs[ref.fg].outpads[ref.pad].media

-----------------------------------------------------------------------------
(* analyze_fg_outputs *)

\* utils.as_multi_option + fgb.as_filtergraph_object: the filter_complex
\* option as a list of filtergraph objects
as_filtergraph_list(gopts) == gopts["filter_complex"]

\* every output pad of every listed filtergraph, in iteration order
RECURSIVE AllOutputPads(_, _)
AllOutputPads(fcs, i) ==
    IF i > Len(fcs) THEN <<>>
    ELSE [k \in 1..Len(fcs[i].outpads) |-> [fg |-> i, pad |-> iter_output_pads(fcs[i])[k]]]
         \o AllOutputPads(fcs, i + 1)

\* the pads to label taken to be every output pad, labeled or not
AllUnlabeledPads_Every(fcs) == AllOutputPads(fcs, 1)

\* every unlabeled output pad of every listed filtergraph, in iteration order
AllUnlabeledPads(fcs) ==
    SelectSeq(AllOutputPads(fcs, 1), LAMBDA r : get_label(fcs[r.fg], r.pad) = None)

\* every input label of every listed filtergraph, in iteration order
RECURSIVE AllInputLabels(_, _)
AllInputLabels(fcs, i) ==
    IF i > Len(fcs) THEN <<>>
    ELSE iter_input_labels(fcs[i]) \o AllInputLabels(fcs, i + 1)

\* the first loop: log the existing out<N> labels and whether a pad is unlabeled
RECURSIVE ScanOutputLabels(_, _, _)
ScanOutputLabels(fcs, refs, acc) ==
    IF refs = <<>> THEN acc
    ELSE LET ref == Head(refs)
             label == get_label(fcs[ref.fg], ref.pad)
             acc2 == IF label = None
                     THEN [acc EXCEPT !.out_unlabeled = TRUE]
                     ELSE IF MatchOut(label) # {}
                          THEN [acc EXCEPT !.out_indices = @ \cup MatchOut(label),
                                           !.out_labels = ODictSet(@, PyStr(label), ref)]
                          ELSE acc
         IN  ScanOutputLabels(fcs, Tail(refs), acc2)

\* the second loop: drop the output labels that feed an input of a filtergraph
RECURSIVE RemoveConnected(_, _)
RemoveConnected(out_labels, inlabels) ==
    IF inlabels = <<>> THEN out_labels
    ELSE RemoveConnected(
            IF ODictHas(out_labels, PyStr(Head(inlabels)))
            THEN ODictPop(out_labels, PyStr(Head(inlabels)))
            ELSE out_labels,
            Tail(inlabels))

\* the key under which the code looks index n up in out_labels:
\* `i not in out_labels` and `out_n not in out_labels` test the int itself
OutLabelKey(n) == PyInt(n)

\* next(i for i in range(len(out_labels) + 1) if i not in out_labels)
FirstOutN(out_labels) ==
    LET free == {i \in 0..Len(out_labels) : ~ODictHas(out_labels, OutLabelKey(i))}
    IN  CHOOSE i \in free : \A j \in free : i <= j

\* while True: out_n += 1; if out_n not in out_labels: break
NextOutN(out_labels, out_n) ==
    LET free == {i \in (out_n + 1)..(out_n + Len(out_labels) + 1) :
                    ~ODictHas(out_labels, OutLabelKey(i))}
    IN  CHOOSE i \in free : \A j \in free : i <= j

\* the labeling loop over the unlabeled pads, then add_label for each
RECURSIVE LabelPads(_, _)
LabelPads(st, refs) ==
    IF refs = <<>> THEN st
    ELSE LET ref == Head(refs)
             label == FmtOut(st.out_n)
             labels2 == ODictSet(st.out_labels, PyStr(label), ref)
         IN  LabelPads(
                [out_labels |-> labels2,
                 out_n |-> NextOutN(labels2, st.out_n),
                 fcs |-> [st.fcs EXCEPT ![ref.fg] = add_label(@, label, ref.pad)]],
                Tail(refs))

\* map = {f"[{label}]": filter.get_pad_media_type("output", pad_id) ...}
OutputMap(fcs, out_labels) ==
    [i \in 1..Len(out_labels) |->
        [k |-> "[" \o out_labels[i].k.v \o "]",
         v |-> get_pad_media_type(fcs, out_labels[i].v)]]

\* analyze_fg_outputs(args): [args |-> args afterwards, map |-> the returned map]
analyze_fg_outputs(a) ==
    IF "filter_complex" \notin DOMAIN a.global_options
    THEN [args |-> a, map |-> <<>>]
    ELSE
    LET fcs0 == as_filtergraph_list(a.global_options)
        scan == ScanOutputLabels(fcs0, AllOutputPads(fcs0, 1),
                    [out_indices |-> {}, out_labels |-> <<>>, out_unlabeled |-> FALSE])
        kept == IF Len(fcs0) > 1
                THEN RemoveConnected(scan.out_labels, AllInputLabels(fcs0, 1))
                ELSE scan.out_labels
        done == IF scan.out_unlabeled
                THEN LabelPads([out_labels |-> kept, out_n |-> FirstOutN(kept), fcs |-> fcs0],
                               AllUnlabeledPads(fcs0))
                ELSE [out_labels |-> kept, out_n |-> 0, fcs |-> fcs0]
    IN  [args |-> [a EXCEPT !.global_options = Put(@, "filter_complex", done.fcs)],
         map |-> OutputMap(done.fcs, done.out_labels)]

-----------------------------------------------------------------------------
(* retrieve_input_stream_ids and auto_map *)

\* get_args(MediaType)
MediaType == {"audio", "video"}

\* media_type[0]
FirstLetter(media_type) == IF media_type = "video" THEN "v" ELSE "a"

\* does stream number idx (0-based, of codec type ctype, the k-th of its type)
\* match the stream specifier ss = [stream_type, index] (None: not given)
StreamMatches(ss, idx, ctype, k) ==
    /\ \/ ss.stream_type = None
       \/ ss.stream_type \in {"v", "V"} /\ ctype = "video"
       \/ ss.stream_type = "a" /\ ctype = "audio"
       \/ ss.stream_type = "s" /\ ctype = "subtitle"
    /\ \/ ss.index = None
       \/ ss.stream_type = None /\ ss.index = ToString(idx)
       \/ ss.stream_type # None /\ ss.index = ToString(k)

\* how many streams of codec type ctype come before position p of streams
RECURSIVE CountBefore(_, _, _)
CountBefore(streams, p, ctype) ==
    IF p <= 1 THEN 0
    ELSE CountBefore(streams, p - 1, ctype) + (IF streams[p - 1] = ctype THEN 1 ELSE 0)

\* probe.streams_basic(url, stream_spec=...) for input file number f (1-based):
\* the [index, codec_type] records of the streams the specifier selects
streams_basic(f, ss) ==
    LET streams == probe.streams[f]
        sel == SelectSeq([p \in 1..Len(streams) |-> p],
                   LAMBDA p : StreamMatches(ss, p - 1, streams[p],
                                            CountBefore(streams, p, streams[p])))
    IN  [n \in 1..Len(sel) |-> [index |-> sel[n] - 1, codec_type |-> streams[sel[n]]]]

NoStreamSpec == [stream_type |-> None, index |-> None]

\* the stream list built with the failure of the probe not caught
retrieve_input_stream_ids_NoCatch(f, ss) ==
    LET found == SelectSeq(streams_basic(f, ss), LAMBDA st : st.codec_type \in MediaType)
    IN  [n \in 1..Len(found) |-> <<found[n].index, found[n].codec_type>>]

\* retrieve_input_stream_ids(info, url, opts, stream_spec) for input file f:
\* the <<index, media type>> pairs, empty when the probe fails
retrieve_input_stream_ids(f, ss) ==
    IF probe.fails[f] THEN <<>>
    ELSE LET found == SelectSeq(streams_basic(f, ss), LAMBDA st : st.codec_type \in MediaType)
         IN  [n \in 1..Len(found) |-> <<found[n].index, found[n].codec_type>>]

\* next_map_option with the per-file reset of the counters left out
next_map_option_NoReset(counter, i, media_type) ==
    LET j == counter[media_type]
    IN  [counter |-> [counter EXCEPT ![media_type] = j + 1],
         key |-> ToString(i) \o ":" \o FirstLetter(media_type) \o ":" \o ToString(j)]

\* next_map_option(i, media_type) of auto_map: the counters afterwards and the key
next_map_option(counter, i, media_type) ==
    LET c1 == IF counter.file # ToString(i)
              THEN [file |-> ToString(i), audio |-> 0, video |-> 0]
              ELSE counter
        j == c1[media_type]
    IN  [counter |-> [c1 EXCEPT ![media_type] = j + 1],
         key |-> ToString(i) \o ":" \o FirstLetter(media_type) \o ":" \o ToString(j)]

\* the dict comprehension of auto_map over the streams of input file i (0-based)
RECURSIVE MapStreams(_, _, _)
MapStreams(st, i, streams) ==
    IF streams = <<>> THEN st
    ELSE LET j == Head(streams)[1]
             media_type == Head(streams)[2]
             nx == next_map_option(st.counter, i, media_type)
         IN  MapStreams(
                [counter |-> nx.counter,
                 map |-> ODictSet(st.map, PyStr(nx.key),
                            [dst_type |-> "pipe", user_map |-> None,
                             media_type |-> media_type,
                             input_file_id |-> i, input_stream_id |-> j])],
                i, Tail(streams))

RECURSIVE MapInputs(_, _, _)
MapInputs(st, f, n) ==
    IF f > n THEN st
    ELSE MapInputs(MapStreams(st, f - 1, retrieve_input_stream_ids(f, NoStreamSpec)), f + 1, n)

\* auto_map(args, input_info): [args |-> args afterwards, map |-> the returned map]
auto_map(a) ==
    IF "filter_complex" \in DOMAIN a.global_options
    THEN LET r == analyze_fg_outputs(a)
         IN  [args |-> r.args,
              map |-> [n \in 1..Len(r.map) |->
                        [k |-> PyStr(r.map[n].k),
                         v |-> [dst_type |-> "pipe", user_map |-> None,
                                media_type |-> r.map[n].v]]]]
    ELSE [args |-> a,
          map |-> MapInputs([counter |-> [file |-> None, audio |-> 0, video |-> 0],
                             map |-> <<>>], 1, Len(a.inputs)).map]

-----------------------------------------------------------------------------
(* The calls, as actions on the argument structure *)

Call_analyze_fg_outputs ==
    /\ call.family = "fg"
    /\ LET r == analyze_fg_outputs(args)
       IN  /\ args' = r.args
           /\ ret' = r.map
    /\ pre' = args
    /\ call' = [call EXCEPT !.op = "analyze_fg_outputs"]
    /\ UNCHANGED probe

Call_auto_map ==
    /\ call.family \in {"fg", "map"}
    /\ LET r == auto_map(args)
       IN  /\ args' = r.args
           /\ ret' = r.map
    /\ pre' = args
    /\ call' = [call EXCEPT !.op = "auto_map"]
    /\ UNCHANGED probe

-----------------------------------------------------------------------------
(* Filtergraph sets the callers can list in filter_complex *)

\* labels a caller puts on an output pad (None: the pad is left unlabeled)
UserLabels == {None, "vout", FmtOut(0), FmtOut(1)}

RECURSIVE SumTo(_, _)
SumTo(sizes, m) == IF m = 0 THEN 0 ELSE sizes[m] + SumTo(sizes, m - 1)

\* the filtergraph list with sizes[g] output pads in graph g, the pads labeled
\* labels[1..] in order, all pads of graph g of media type media[g], and the
\* input label conn.label on graph conn.fg (conn.fg = 0: no input label; the
\* label is that of an output pad, or the input stream 0:v)
BuildGraphs(sizes, labels, media, conn) ==
    [g \in 1..Len(sizes) |->
        [outpads |-> [k \in 1..sizes[g] |->
                        [label |-> labels[SumTo(sizes, g - 1) + k], media |-> media[g]]],
         inlabels |-> IF conn.fg = g THEN <<conn.label>> ELSE <<>>]]

\* no two output pads carry the same label (FFmpeg rejects such a graph)
DistinctLabels(labels) ==
    \A p, q \in DOMAIN labels : p # q /\ labels[p] # None => labels[p] # labels[q]

NoProbe == [streams |-> <<>>, fails |-> <<>>]

InitFg ==
    /\ \E m \in 1..MaxFg : \E sizes \in [1..m -> 1..MaxPads] :
          /\ SumTo(sizes, m) <= MaxPads
          /\ \E labels \in [1..SumTo(sizes, m) -> UserLabels] :
                /\ DistinctLabels(labels)
                /\ \E media \in [1..m -> MediaType] :
                   \E conn \in {[fg |-> 0, label |-> None]}
                           \cup [fg : 1..m,
                                 label : {"0:v"} \cup ({labels[p] : p \in DOMAIN labels} \ {None})] :
                      args = [inputs |-> <<>>, outputs |-> <<>>,
                              global_options |->
                                [filter_complex |-> BuildGraphs(sizes, labels, media, conn)]]
    /\ probe = NoProbe
    /\ call = [family |-> "fg", op |-> "init"]
    /\ pre = args
    /\ ret = <<>>

NextFg == Call_analyze_fg_outputs \/ Call_auto_map

SpecFg == InitFg /\ [][NextFg]_vars

-----------------------------------------------------------------------------
(* Properties of output auto-labeling and auto-mapping *)

\* the N of the out<N> labels on the output pads of the listed filtergraphs
UsedOutIndices(fcs) ==
    UNION {MatchOut(get_label(fcs[r.fg], r.pad)) :
             r \in {AllOutputPads(fcs, 1)[n] : n \in 1..Len(AllOutputPads(fcs, 1))}}

SmallestFree(used) ==
    CHOOSE n \in 0..Cardinality(used) :
        n \notin used /\ \A m \in 0..Cardinality(used) : m \notin used => n <= m

\* the index the k-th unlabeled pad is to get, the earlier ones having got theirs
RECURSIVE ExpectedOutN(_, _)
ExpectedOutN(used, k) ==
    IF k = 1 THEN SmallestFree(used)
    ELSE ExpectedOutN(used \cup {SmallestFree(used)}, k - 1)

\* the labels on the output pads, as the set of <<pad, label>> of labeled pads
LabeledPads(fcs) ==
    {r \in {AllOutputPads(fcs, 1)[n] : n \in 1..Len(AllOutputPads(fcs, 1))} :
        get_label(fcs[r.fg], r.pad) # None}

\* C1: every label analyze_fg_outputs generates for an unlabeled output pad is
\* out<N> with N the smallest non-negative integer not used by an out<N> label
\* of any output pad of any listed filtergraph nor assigned earlier in the call,
\* and so afterwards no two output pads carry the same label.
C1_SmallestUnusedLabel ==
    call.op = "analyze_fg_outputs" =>
        LET fcs0 == pre.global_options["filter_complex"]
            fcs1 == args.global_options["filter_complex"]
            refs == AllUnlabeledPads(fcs0)
        IN  /\ \A k \in 1..Len(refs) :
                  get_label(fcs1[refs[k].fg], refs[k].pad)
                      = FmtOut(ExpectedOutN(UsedOutIndices(fcs0), k))
            /\ \A p, q \in LabeledPads(fcs1) :
                  p # q => get_label(fcs1[p.fg], p.pad) # get_label(fcs1[q.fg], q.pad)

\* a label that an input pad of a listed filtergraph consumes
IsConsumed(fcs, label) ==
    \E n \in 1..Len(AllInputLabels(fcs, 1)) : AllInputLabels(fcs, 1)[n] = label

\* C3: with a global filter_complex, auto_map returns one entry for every
\* output pad of the listed filtergraphs, whatever its label is (a label given
\* by the caller or one generated for it), with the media type of the pad.
\* (Pads whose label another filtergraph consumes are left out of the statement.)
C3_EveryOutputPadMapped ==
    (call.op = "auto_map" /\ "filter_complex" \in DOMAIN pre.global_options) =>
        LET fcs1 == args.global_options["filter_complex"]
            refs == AllOutputPads(fcs1, 1)
        IN  \A n \in 1..Len(refs) :
                LET label == get_label(fcs1[refs[n].fg], refs[n].pad)
                IN  /\ label # None
                    /\ ~IsConsumed(fcs1, label) =>
                          \E e \in 1..Len(ret) :
                             /\ ret[e].k = PyStr("[" \o label \o "]")
                             /\ ret[e].v.media_type = get_pad_media_type(fcs1, refs[n])

-----------------------------------------------------------------------------
(* Input files and what the probe finds in them *)

\* codec types ffprobe reports
CodecTypes == {"video", "audio", "subtitle"}

\* input file number f (1-based) of n files holds streams cuts[f-1]+1 .. cuts[f]
\* of the stream list all (cuts[0] = 0, cuts[n] = Len(all))
FileStreams(all, cuts, n, f) ==
    LET lo == IF f = 1 THEN 0 ELSE cuts[f - 1]
        hi == IF f = n THEN Len(all) ELSE cuts[f]
    IN  SubSeq(all, lo + 1, hi)

\* the probe answers for n input files that hold the streams of all between them,
\* file f ending at stream cuts[f]; fails[f]: the probe of file f fails
ProbeOf(n, all, cuts, fails) ==
    [streams |-> [f \in 1..n |-> FileStreams(all, cuts, n, f)], fails |-> fails]

\* the probe answers of the model: probe is one of them
IsProbe(p) ==
    \E n \in 1..MaxInputs : \E len \in 0..MaxStreams : \E all \in [1..len -> CodecTypes] :
    \E cuts \in [1..(n - 1) -> 0..len] : \E fails \in [1..n -> BOOLEAN] :
        /\ \A f \in 1..(n - 2) : cuts[f] <= cuts[f + 1]
        /\ p = ProbeOf(n, all, cuts, fails)

\* input url number f
UrlOf(f) == "in" \o ToString(f - 1)

InitMap ==
    /\ IsProbe(probe)
    /\ args = [inputs |-> [f \in 1..Len(probe.streams) |-> [url |-> UrlOf(f), opts |-> EmptyDict]],
               outputs |-> <<>>,
               global_options |-> EmptyDict]
    /\ call = [family |-> "map", op |-> "init"]
    /\ pre = args
    /\ ret = <<>>

NextMap == Call_auto_map

SpecMap == InitMap /\ [][NextMap]_vars

\* the <<file, position>> of the audio and video streams the probe reports
MappableStreams ==
    {fp \in (1..Len(probe.streams)) \X (1..MaxStreams + 1) :
        /\ ~probe.fails[fp[1]]
        /\ fp[2] <= Len(probe.streams[fp[1]])
        /\ probe.streams[fp[1]][fp[2]] \in MediaType}

-----------------------------------------------------------------------------
(* Stream-specifier grammar (stream_spec module) and resolve_raw_output_streams *)

\* the parts of a map specifier: a link label, or an input file index with an
\* optional stream type letter and an optional stream index (None: not given)
MapParts ==
    [linklabel : {None}, file : {None} \cup {ToString(i) : i \in 0..MaxInputs},
     stream_type : {None, "v", "a"}, index : {None, "0", "1"}]
    \cup [linklabel : {"out0", "out1", "vout"}, file : {None}, stream_type : {None}, index : {None}]

\* ":".join of the parts that are given
JoinParts(parts) ==
    LET given == SelectSeq(parts, LAMBDA x : x # None)
    IN  IF Len(given) = 0 THEN ""
        ELSE IF Len(given) = 1 THEN given[1]
        ELSE IF Len(given) = 2 THEN given[1] \o ":" \o given[2]
        ELSE given[1] \o ":" \o given[2] \o ":" \o given[3]

\* the text of a map specifier (compose)
MapText(m) ==
    IF m.linklabel # None THEN "[" \o m.linklabel \o "]"
    ELSE JoinParts(<<m.file, m.stream_type, m.index>>)

\* the specifiers a caller writes: a file-less one names at least the stream type
UserMaps ==
    {MapText(m) : m \in {x \in MapParts :
        /\ x.linklabel = None => (x.file # None \/ x.stream_type # None)
        /\ x.file \in {None, "0", "1"}
        /\ x.linklabel \in {None, "out0", "vout"}}}

\* the specifier texts, each with the parts it spells
MapTable ==
    {<<MapText(x), x>> :
        x \in {y \in MapParts :
                 y.linklabel = None => (y.file # None \/ y.stream_type # None)}}

\* parse_map_option(spec, parse_stream=True, input_file_id=default), with
\* {"stream_specifier": {}, **opt}: the parts the text spells, the default
\* file index filled in; error when no file index is given and there is no default
parse_map_option(spec, default) ==
    LET m == (CHOOSE p \in MapTable : p[1] = spec)[2]
    IN  IF m.linklabel # None
        THEN [error |-> FALSE, linklabel |-> m.linklabel, input_file_id |-> None,
              stream_specifier |-> [stream_type |-> None, index |-> None]]
        ELSE [error |-> m.file = None /\ default = None,
              linklabel |-> None,
              input_file_id |-> IF m.file = None THEN default ELSE m.file,
              stream_specifier |-> [stream_type |-> m.stream_type, index |-> m.index]]

\* compose_map_option(**opt)
compose_map_option(opt) ==
    IF opt.linklabel # None THEN "[" \o opt.linklabel \o "]"
    ELSE JoinParts(<<opt.input_file_id, opt.stream_specifier.stream_type,
                     opt.stream_specifier.index>>)

\* stream_type_to_media_type(stream_type)
stream_type_to_media_type(stream_type) ==
    IF stream_type \in {"v", "V"} THEN "video"
    ELSE IF stream_type = "a" THEN "audio"
    ELSE None

\* x in "avV": the substrings of avV
In_avV(x) == x \in {"", "a", "v", "V", "av", "vV", "avV"}

\* the test of line 971-973 on one parsed specifier:
\* (stream_type or "") in "avV" and "index" in stream_specifier
SinglesOutStream(opt) ==
    /\ In_avV(IF Truthy(opt.stream_specifier.stream_type)
              THEN opt.stream_specifier.stream_type ELSE "")
    /\ opt.stream_specifier.index # None

\* the int a decimal text spells
FileIndex(text) == CHOOSE f \in 0..(MaxInputs + 1) : ToString(f) = text

\* fg_map.get(spec, None)
FgMapGet(fg_map, spec) ==
    IF \E e \in 1..Len(fg_map) : fg_map[e].k = spec
    THEN fg_map[CHOOSE e \in 1..Len(fg_map) : fg_map[e].k = spec].v
    ELSE None

\* the entries of one input specifier, each keyed by the specifier itself
RECURSIVE AddStreams_SpecKey(_, _, _, _, _)
AddStreams_SpecKey(stream_info, spec, file_index, stream_data, n) ==
    IF n > Len(stream_data) THEN stream_info
    ELSE AddStreams_SpecKey(
            ODictSet(stream_info, PyStr(spec),
                [dst_type |-> "pipe", user_map |-> spec, media_type |-> stream_data[n][2],
                 input_file_id |-> ToString(file_index),
                 input_stream_id |-> ToString(stream_data[n][1])]),
            spec, file_index, stream_data, n + 1)

\* the entries of one input specifier on the resolving path
RECURSIVE AddStreams(_, _, _, _, _)
AddStreams(stream_info, spec, file_index, stream_data, n) ==
    IF n > Len(stream_data) THEN stream_info
    ELSE AddStreams(
            ODictSet(stream_info,
                PyStr(IF Len(stream_data) = 1 THEN spec
                      ELSE ToString(file_index) \o ":" \o ToString(stream_data[n][1])),
                [dst_type |-> "pipe", user_map |-> spec, media_type |-> stream_data[n][2],
                 input_file_id |-> ToString(file_index),
                 input_stream_id |-> ToString(stream_data[n][1])]),
            spec, file_index, stream_data, n + 1)

\* the loop of lines 1002-1034 from specifier k on
RECURSIVE ResolveEach(_, _, _, _, _, _)
ResolveEach(st, a, streams, map_options, fg_map, k) ==
    IF k > Len(streams) \/ st.err # None THEN st
    ELSE LET spec == streams[k]
             opt == map_options[k]
             media_type == FgMapGet(fg_map, spec)
         IN  IF media_type # None
             THEN ResolveEach(
                    [st EXCEPT !.map = ODictSet(@, PyStr(spec),
                        [dst_type |-> "pipe", user_map |-> spec, media_type |-> media_type,
                         input_file_id |-> None, input_stream_id |-> None])],
                    a, streams, map_options, fg_map, k + 1)
             ELSE IF opt.input_file_id = None
             THEN [st EXCEPT !.err = "KeyError"]
             ELSE IF FileIndex(opt.input_file_id) >= Len(a.inputs)
             THEN [st EXCEPT !.err = "IndexError"]
             ELSE LET f == FileIndex(opt.input_file_id)
                      stream_data == retrieve_input_stream_ids(f + 1, opt.stream_specifier)
                  IN  ResolveEach(
                        [st EXCEPT !.map = AddStreams(@, spec, f, stream_data, 1),
                                   !.probed = @ \cup {f}],
                        a, streams, map_options, fg_map, k + 1)

\* resolve_raw_output_streams(args, input_info, streams), input_info one per input:
\* [args afterwards, err (None: it returned), path taken, files probed, map returned]
resolve_raw_output_streams(a, streams) ==
    LET input_file_id == IF Len(a.inputs) = 1 THEN "0" ELSE None
        map_options == [k \in 1..Len(streams) |-> parse_map_option(streams[k], input_file_id)]
    IN  IF \E k \in 1..Len(streams) : map_options[k].error
        THEN [args |-> a, err |-> "ParseError", path |-> None, probed |-> {}, map |-> <<>>]
        ELSE IF \A k \in 1..Len(streams) : SinglesOutStream(map_options[k])
        THEN [args |-> a, err |-> None, path |-> "direct", probed |-> {},
              map |-> LET RECURSIVE Direct(_, _)
                          Direct(d, k) ==
                              IF k > Len(streams) THEN d
                              ELSE Direct(
                                     ODictSet(d, PyStr(compose_map_option(map_options[k])),
                                        [dst_type |-> "pipe", user_map |-> streams[k],
                                         media_type |-> stream_type_to_media_type(
                                            map_options[k].stream_specifier.stream_type),
                                         input_file_id |-> map_options[k].input_file_id,
                                         input_stream_id |-> None]),
                                     k + 1)
                      IN  Direct(<<>>, 1)]
        ELSE LET fg == IF \E k \in 1..Len(streams) : map_options[k].linklabel # None
                       THEN analyze_fg_outputs(a)
                       ELSE [args |-> a, map |-> <<>>]
                 st == ResolveEach([err |-> None, probed |-> {}, map |-> <<>>],
                                   a, streams, map_options, fg.map, 1)
             IN  [args |-> fg.args, err |-> st.err, path |-> "resolved",
                  probed |-> st.probed, map |-> st.map]

Call_resolve_raw_output_streams ==
    /\ call.family = "resolve"
    /\ call.op = "init"
    /\ LET r == resolve_raw_output_streams(args, call.streams)
       IN  /\ args' = r.args
           /\ ret' = [err |-> r.err, path |-> r.path, probed |-> r.probed, map |-> r.map]
    /\ pre' = args
    /\ call' = [call EXCEPT !.op = "resolve_raw_output_streams"]
    /\ UNCHANGED probe

\* the input files of the test assets: one file with streams video, audio,
\* video, audio, or a video-only file and an audio-only file
AssetProbes ==
    {[streams |-> <<<<"video", "audio", "video", "audio">>>>, fails |-> <<FALSE>>],
     [streams |-> <<<<"video">>, <<"audio">>>>, fails |-> <<FALSE, FALSE>>],
     [streams |-> <<<<"video">>, <<"audio">>>>, fails |-> <<FALSE, TRUE>>]}

\* the filter_complex of the tests: split=n=2, two unlabeled video output pads
SplitGraph ==
    [outpads |-> <<[label |-> None, media |-> "video"], [label |-> None, media |-> "video"]>>,
     inlabels |-> <<>>]

InitResolve ==
    /\ probe \in AssetProbes
    /\ \E gopts \in {EmptyDict, [filter_complex |-> <<SplitGraph>>]} :
          args = [inputs |-> [f \in 1..Len(probe.streams) |->
                                [url |-> UrlOf(f), opts |-> EmptyDict]],
                  outputs |-> <<>>,
                  global_options |-> gopts]
    /\ \E n \in 1..MaxMaps : \E streams \in [1..n -> UserMaps] :
          call = [family |-> "resolve", op |-> "init", streams |-> streams]
    /\ pre = args
    /\ ret = <<>>

NextResolve == Call_resolve_raw_output_streams

SpecResolve == InitResolve /\ [][NextResolve]_vars

\* a specifier text that gives an audio/video stream type letter and an index
GivesTypeAndIndex(spec) ==
    \E m \in MapParts :
        /\ MapText(m) = spec
        /\ m.linklabel = None
        /\ m.stream_type \in {"a", "v", "V"}
        /\ m.index # None

-----------------------------------------------------------------------------
(* Video: build_basic_vf and finalize_video_read_opts                      *)
(* A filter chain (the vf / filter:v option) is a sequence of filter nodes *)
(* [name, arg]; the filter a caller passes is the node named "user".       *)

\* pixel formats of the model and whether they carry an alpha channel
PixFmts == {"rgb24", "rgba", "gray", "ya8", "yuv420p"}
HasAlpha(pix_fmt) == pix_fmt \in {"rgba", "ya8"}

\* utils.get_pixel_config(pix_fmt_in, pix_fmt): the raw output format (the given
\* one, else the one that keeps the components of the input) and whether the
\* alpha channel of the input has to be removed; error for an unknown input format
get_pixel_config(pix_fmt_in, pix_fmt) ==
    IF pix_fmt_in \notin PixFmts
    THEN [error |-> TRUE, pix_fmt |-> None, remove_alpha |-> FALSE]
    ELSE LET out == IF pix_fmt # None THEN pix_fmt
                    ELSE IF pix_fmt_in \in {"rgba", "ya8", "gray"} THEN pix_fmt_in
                    ELSE "rgb24"
         IN  [error |-> FALSE, pix_fmt |-> out,
              remove_alpha |-> HasAlpha(pix_fmt_in) /\ ~HasAlpha(out)]

\* fgb.Chain()
EmptyChain == <<>>

\* filter_video_basic(**fopts): one filter per request that is given
BasicOrder == <<"crop", "flip", "transpose", "square_pixels", "scale">>
filter_video_basic(fopts) ==
    LET given == SelectSeq(BasicOrder, LAMBDA n : n \in DOMAIN fopts /\ Truthy(fopts[n]))
    IN  [k \in 1..Len(given) |-> [name |-> given[k], arg |-> fopts[given[k]]]]

\* remove_video_alpha(fill_color)
remove_video_alpha(fill_color) == <<[name |-> "remove_alpha", arg |-> fill_color]>>

\* the option names build_basic_vf turns into filters
BasicNames == {"crop", "flip", "transpose", "square_pixels"}

\* len(scale) != 2 or scale[0] <= 0 or scale[1] <= 0, scale a tuple of ints
NeedsScaleFilter(scale) == Len(scale) # 2 \/ scale[1] <= 0 \/ scale[2] <= 0

\* build_basic_vf(args, remove_alpha, ofile) on the option dict of the output:
\* [outopts afterwards, changed: the value returned, warned: default color used]
build_basic_vf(outopts, remove_alpha_arg) ==
    LET fopts0 == [n \in BasicNames |-> Get(outopts, n)]
        o1 == [k \in DOMAIN outopts \ (BasicNames \cup {"fill_color", "remove_alpha"})
                 |-> outopts[k]]
        fill_color == Get(outopts, "fill_color")
        remove_alpha == IF fill_color # None THEN TRUE
                        ELSE IF "remove_alpha" \in DOMAIN outopts THEN outopts["remove_alpha"]
                        ELSE remove_alpha_arg
        to_filter == "s" \in DOMAIN o1 /\ NeedsScaleFilter(o1["s"])
        o2 == IF to_filter THEN Del(o1, "s") ELSE o1
        fopts == IF to_filter THEN Put(fopts0, "scale", ToString(o1["s"])) ELSE fopts0
        basic == \E n \in DOMAIN fopts : Truthy(fopts[n])
    IN  IF ~(basic \/ remove_alpha)
        THEN [outopts |-> o2, changed |-> FALSE, warned |-> FALSE]
        ELSE LET vf0 == IF "filter:v" \in DOMAIN o2 THEN o2["filter:v"]
                        ELSE IF "vf" \in DOMAIN o2 THEN o2["vf"]
                        ELSE EmptyChain
                 o3 == Del(Del(o2, "vf"), "filter:v")
                 vf1 == IF basic THEN vf0 \o filter_video_basic(fopts) ELSE vf0
                 vf2 == IF remove_alpha
                        THEN vf1 \o remove_video_alpha(
                                        IF fill_color = None THEN "white" ELSE fill_color)
                        ELSE vf1
             IN  [outopts |-> Put(o3, "vf", vf2), changed |-> TRUE,
                  warned |-> remove_alpha /\ fill_color = None]

\* utils.analyze_input_stream(fields, stream_spec, "video", inurl, inopts, info)
\* through flds2opts: the <<r, pix_fmt, s>> the probe finds for input file f
analyze_video_input(f) == probe.video[f]

\* the same through the synthetic source chain plus the output's own filter
analyze_video_filter(inopt_vals, vf) == probe.video_filtered

\* [v or s for v, s in zip(a, b)] over <<r, pix_fmt, s>> (s is present or None)
OrEach(a, b) == [k \in 1..Len(a) |-> IF a[k] # None /\ a[k] # "" THEN a[k] ELSE b[k]]

\* finalize_video_read_opts(args, ofile, input_info):
\* [args afterwards, r, s, pix_fmt_in: the values resolved, warned]
finalize_video_read_opts(a, ofile) ==
    LET outopts0 == a.outputs[ofile].opts
        outmap_fields == parse_map_option(outopts0["map"], None)
        has_simple_filter == "vf" \in DOMAIN outopts0 \/ "filter:v" \in DOMAIN outopts0
        fill_color == Get(outopts0, "fill_color")
        outopts1 == IF fill_color # None /\ "remove_alpha" \notin DOMAIN outopts0
                    THEN Del(outopts0, "fill_color") ELSE outopts0
        opt_vals == <<Get(outopts1, "r"), Get(outopts1, "pix_fmt"),
                      IF "s" \in DOMAIN outopts1 THEN ToString(outopts1["s"]) ELSE None>>
        linked == outmap_fields.linklabel # None
        b1 == IF linked THEN [outopts |-> outopts1, changed |-> FALSE, warned |-> FALSE]
              ELSE build_basic_vf(outopts1, FALSE)
        ifile == IF linked THEN 0 ELSE FileIndex(outmap_fields.input_file_id) + 1
        inopts == a.inputs[ifile].opts
        in0 == <<Get(inopts, "r"), Get(inopts, "pix_fmt"), Get(inopts, "s")>>
        in1 == IF \A k \in 1..3 : Truthy(in0[k]) THEN in0
               ELSE OrEach(in0, analyze_video_input(ifile))
        inopt_vals ==
            IF linked THEN <<None, None, None>>
            ELSE IF has_simple_filter
                 THEN analyze_video_filter(in1,
                        IF "filter:v" \in DOMAIN b1.outopts THEN b1.outopts["filter:v"]
                        ELSE b1.outopts["vf"])
                 ELSE in1
        pix_fmt == opt_vals[2]
        pix_fmt_in == inopt_vals[2]
        cfg == get_pixel_config(pix_fmt_in, pix_fmt)
        b2 == IF pix_fmt = None
              THEN [outopts |-> IF cfg.error THEN b1.outopts
                                ELSE Put(b1.outopts, "pix_fmt", cfg.pix_fmt),
                    warned |-> b1.warned]
              ELSE IF pix_fmt_in # None /\ cfg.remove_alpha
                   THEN LET b == build_basic_vf(b1.outopts, TRUE)
                        IN  [outopts |-> b.outopts, warned |-> b1.warned \/ b.warned]
                   ELSE [outopts |-> b1.outopts, warned |-> b1.warned]
    IN  [args |-> [a EXCEPT !.outputs[ofile].opts = Put(b2.outopts, "f", "rawvideo")],
         r |-> Or(opt_vals[1], inopt_vals[1]),
         s |-> Or(opt_vals[3], inopt_vals[3]),
         pix_fmt_in |-> pix_fmt_in,
         warned |-> b2.warned]

Call_finalize_video_read_opts ==
    /\ call.family = "video"
    /\ call.op = "init"
    /\ \E r \in {finalize_video_read_opts(args, call.ofile)} :
          /\ args' = r.args
          /\ ret' = [r |-> r.r, s |-> r.s, pix_fmt_in |-> r.pix_fmt_in, warned |-> r.warned]
    /\ pre' = args
    /\ call' = [call EXCEPT !.op = "finalize_video_read_opts"]
    /\ UNCHANGED probe

\* the filter a caller passes as vf / filter:v
UserChain == <<[name |-> "user", arg |-> "hflip"]>>

\* the option dict with the keys of keys that are given (value # None)
DictOf(keys, vals) == [k \in {x \in keys : vals[x] # None} |-> vals[k]]

\* output option dicts of a raw video read
VideoOutOpts ==
    {LET d1 == DictOf({"map", "pix_fmt", "fill_color"} \cup BasicNames,
                      [k \in {"map", "pix_fmt", "fill_color"} \cup BasicNames |->
                          IF k = "map" THEN c.map
                          ELSE IF k = "pix_fmt" THEN c.pix_fmt
                          ELSE IF k = "fill_color" THEN c.fill_color
                          ELSE IF k \in c.basic THEN "on" ELSE None])
         d2 == IF c.remove_alpha = "absent" THEN d1
               ELSE Put(d1, "remove_alpha", c.remove_alpha = "true")
         d3 == IF c.s = <<>> THEN d2 ELSE Put(d2, "s", c.s)
     IN  IF c.vf = None THEN d3 ELSE Put(d3, c.vf, UserChain) :
        c \in [map : {"0:v:0", "[out0]"},
               pix_fmt : {None, "rgb24", "rgba"},
               fill_color : {None, "red"},
               remove_alpha : {"absent", "true", "false"},
               basic : {{}, {"crop"}, {"flip", "transpose"}, BasicNames},
               s : {<<>>, <<640, 480>>, <<-1, 240>>},
               vf : {None, "vf", "filter:v"}]}

InitVideo ==
    /\ \E outopts \in VideoOutOpts :
       \E inopts \in {EmptyDict, [pix_fmt |-> "rgba"]} :
          args = [inputs |-> <<[url |-> UrlOf(1), opts |-> inopts]>>,
                  outputs |-> <<[url |-> None, opts |-> outopts]>>,
                  global_options |-> EmptyDict]
    /\ \E pf \in {"rgba", "yuv420p", None} :
       \E fpf \in {"rgba", "rgb24"} :
          /\ ("vf" \notin DOMAIN args.outputs[1].opts
                /\ "filter:v" \notin DOMAIN args.outputs[1].opts) => fpf = "rgba"
          /\ probe = [streams |-> <<<<"video">>>>, fails |-> <<FALSE>>,
                      video |-> <<<<"30", pf, "640x480">>>>,
                      video_filtered |-> <<"30", fpf, "640x480">>]
    /\ call = [family |-> "video", op |-> "init", ofile |-> 1]
    /\ pre = args
    /\ ret = <<>>

NextVideo == Call_finalize_video_read_opts

SpecVideo == InitVideo /\ [][NextVideo]_vars

\* the filter nodes named name of the output's vf option
NodesNamed(outopts, name) ==
    IF "vf" \notin DOMAIN outopts THEN {}
    ELSE {k \in 1..Len(outopts["vf"]) : outopts["vf"][k].name = name}

\* C5: when the explicit output pix_fmt has no alpha channel and the matching
\* input pix_fmt has one, finalize_video_read_opts appends exactly one
\* alpha-removal filter to the output's video filter option, filled with the
\* fill_color output option when the caller gave one and with white otherwise,
\* whether or not remove_alpha is given too.
C5_OneAlphaRemoval ==
    (/\ call.op = "finalize_video_read_opts"
     /\ "pix_fmt" \in DOMAIN pre.outputs[1].opts
     /\ ~HasAlpha(pre.outputs[1].opts["pix_fmt"])
     /\ HasAlpha(ret.pix_fmt_in)) =>
        LET outopts == args.outputs[1].opts
            nodes == NodesNamed(outopts, "remove_alpha")
        IN  /\ Cardinality(nodes) = 1
            /\ \A k \in nodes :
                  outopts["vf"][k].arg =
                     (IF "fill_color" \in DOMAIN pre.outputs[1].opts
                      THEN pre.outputs[1].opts["fill_color"] ELSE "white")

\* C9: after finalize_video_read_opts none of crop, flip, transpose,
\* square_pixels is left as a plain output option, nor is an s option with a
\* non-positive dimension; each such request is a filter of the output's video
\* filter option, after the caller's own filter; for outputs mapped from an
\* input stream and from a filtergraph link label alike.
C9_BasicOptionsBecomeFilters ==
    call.op = "finalize_video_read_opts" =>
        LET before == pre.outputs[1].opts
            outopts == args.outputs[1].opts
            asked == (BasicNames \cap DOMAIN before)
                     \cup (IF "s" \in DOMAIN before /\ NeedsScaleFilter(before["s"])
                           THEN {"scale"} ELSE {})
        IN  /\ BasicNames \cap DOMAIN outopts = {}
            /\ "s" \in DOMAIN outopts => ~NeedsScaleFilter(outopts["s"])
            /\ \A n \in asked :
                  /\ NodesNamed(outopts, n) # {}
                  /\ \A k \in NodesNamed(outopts, n), u \in NodesNamed(outopts, "user") : u < k

-----------------------------------------------------------------------------
(* Audio: finalize_audio_read_opts                                         *)

\* sample_fmt[-1] and sample_fmt[:-1]
LastChar(str) == SubSeq(str, Len(str), Len(str))
DropLast(str) == SubSeq(str, 1, Len(str) - 1)

\* utils.get_audio_codec(sample_fmt): the raw codec and container of a sample
\* format, None for a name it does not know (ValueError)
get_audio_codec(sample_fmt) ==
    CASE sample_fmt \in {"u8", "u8p"} -> <<"pcm_u8", "u8">>
      [] sample_fmt \in {"s16", "s16p"} -> <<"pcm_s16le", "s16le">>
      [] sample_fmt \in {"s32", "s32p"} -> <<"pcm_s32le", "s32le">>
      [] sample_fmt \in {"flt", "fltp"} -> <<"pcm_f32le", "f32le">>
      [] sample_fmt \in {"dbl", "dblp"} -> <<"pcm_f64le", "f64le">>
      [] OTHER -> None

\* utils.get_audio_format(sample_fmt, ac): the numpy data type string
get_audio_format(sample_fmt) ==
    CASE sample_fmt \in {"u8", "u8p"} -> "|u1"
      [] sample_fmt \in {"s16", "s16p"} -> "<i2"
      [] sample_fmt \in {"s32", "s32p"} -> "<i4"
      [] sample_fmt \in {"flt", "fltp"} -> "<f4"
      [] sample_fmt \in {"dbl", "dblp"} -> "<f8"
      [] OTHER -> None

\* utils.analyze_input_stream(fields, stream_spec, "audio", inurl, inopts, info):
\* the <<ar, sample_fmt, ac>> the probe finds for input file f
analyze_audio_input(f) == probe.audio[f]

\* the same through the synthetic source chain plus the output's own filter
analyze_audio_filter(inopt_vals, af) == probe.audio_filtered

\* lines 508-553: the <<ar, sample_fmt, ac>> resolved for the output;
\* err is the exception raised on the way, None if none
ResolveAudioValues_InputFirst(a, ofile) ==
    LET outopts == a.outputs[ofile].opts
        outmap_fields == parse_map_option(outopts["map"], None)
        opt_vals == <<Get(outopts, "ar"), Get(outopts, "sample_fmt"), Get(outopts, "ac")>>
    IN  IF \A k \in 1..3 : Truthy(opt_vals[k]) THEN [err |-> None, vals |-> opt_vals]
        ELSE IF outmap_fields.linklabel # None
        THEN [err |-> "UnboundLocalError", vals |-> opt_vals]
        ELSE LET ifile == FileIndex(outmap_fields.input_file_id) + 1
                 inopts == a.inputs[ifile].opts
                 in0 == <<Get(inopts, "ar"), Get(inopts, "sample_fmt"), Get(inopts, "ac")>>
                 in1 == IF \A k \in 1..3 : Truthy(in0[k]) THEN in0
                        ELSE OrEach(in0, analyze_audio_input(ifile))
                 in2 == IF "af" \in DOMAIN outopts \/ "filter:a" \in DOMAIN outopts
                        THEN OrEach(in1, analyze_audio_filter(in1, None))
                        ELSE in1
             IN  [err |-> None, vals |-> OrEach(opt_vals, in2)]

ResolveAudioValues(a, ofile) ==
    LET outopts == a.outputs[ofile].opts
        outmap_fields == parse_map_option(outopts["map"], None)
        opt_vals == <<Get(outopts, "ar"), Get(outopts, "sample_fmt"), Get(outopts, "ac")>>
    IN  IF \A k \in 1..3 : Truthy(opt_vals[k]) THEN [err |-> None, vals |-> opt_vals]
        ELSE IF outmap_fields.linklabel # None
        THEN \* inopt_vals is never bound on this branch, line 553 reads it
             [err |-> "UnboundLocalError", vals |-> opt_vals]
        ELSE LET ifile == FileIndex(outmap_fields.input_file_id) + 1
                 inopts == a.inputs[ifile].opts
                 in0 == <<Get(inopts, "ar"), Get(inopts, "sample_fmt"), Get(inopts, "ac")>>
                 in1 == IF \A k \in 1..3 : Truthy(in0[k]) THEN in0
                        ELSE OrEach(in0, analyze_audio_input(ifile))
                 in2 == IF "af" \in DOMAIN outopts \/ "filter:a" \in DOMAIN outopts
                        THEN analyze_audio_filter(in1,
                                IF "filter:a" \in DOMAIN outopts THEN outopts["filter:a"]
                                ELSE outopts["af"])
                        ELSE in1
             IN  [err |-> None, vals |-> OrEach(opt_vals, in2)]

\* lines 559-574: the sample format the raw data will have, and the output
\* options after the default or the interleaved name is written to them
NormalizeSampleFmt_NoWriteBack(outopts, sample_fmt) ==
    IF sample_fmt = None
    THEN [outopts |-> Put(outopts, "sample_fmt", "dbl"), sample_fmt |-> "dbl"]
    ELSE IF LastChar(sample_fmt) = "p"
         THEN [outopts |-> outopts, sample_fmt |-> DropLast(sample_fmt)]
         ELSE [outopts |-> outopts, sample_fmt |-> sample_fmt]

NormalizeSampleFmt(outopts, sample_fmt) ==
    IF sample_fmt = None
    THEN [outopts |-> Put(outopts, "sample_fmt", "dbl"), sample_fmt |-> "dbl"]
    ELSE IF LastChar(sample_fmt) = "p"
         THEN [outopts |-> Put(outopts, "sample_fmt", DropLast(sample_fmt)),
               sample_fmt |-> DropLast(sample_fmt)]
         ELSE [outopts |-> outopts, sample_fmt |-> sample_fmt]

\* line 577: outopts["c:a"], outopts["f"] = utils.get_audio_codec(sample_fmt)
SetAudioCodec_ByRate(outopts, sample_fmt) ==
    LET codec == get_audio_codec(sample_fmt)
    IN  Put(Put(outopts, "c:a", codec[1]),
            "f", IF "ar" \in DOMAIN outopts THEN codec[2] ELSE "wav")

SetAudioCodec(outopts, sample_fmt) ==
    LET codec == get_audio_codec(sample_fmt)
    IN  Put(Put(outopts, "c:a", codec[1]), "f", codec[2])

\* finalize_audio_read_opts(args, ofile, input_info): [args afterwards, err,
\* resolved: <<ar, sample_fmt, ac>> of line 556, sample_fmt: the final one,
\* dtype, ac, ar: the values returned]
finalize_audio_read_opts(a, ofile) ==
    LET outopts == a.outputs[ofile].opts
        res == ResolveAudioValues(a, ofile)
        failed == [args |-> a, err |-> res.err, resolved |-> res.vals,
                   sample_fmt |-> None, dtype |-> None, ac |-> None, ar |-> None]
    IN  IF res.err # None THEN failed
        ELSE LET n == NormalizeSampleFmt(outopts, res.vals[2])
             IN  IF get_audio_codec(n.sample_fmt) = None
                 THEN [failed EXCEPT !.err = "ValueError",
                                     !.args = [a EXCEPT !.outputs[ofile].opts = n.outopts]]
                 ELSE [args |-> [a EXCEPT !.outputs[ofile].opts =
                                     SetAudioCodec(n.outopts, n.sample_fmt)],
                       err |-> None,
                       resolved |-> res.vals,
                       sample_fmt |-> n.sample_fmt,
                       dtype |-> get_audio_format(n.sample_fmt),
                       ac |-> res.vals[3],
                       ar |-> res.vals[1]]

\* each output of the read is finalized once
Call_finalize_audio_read_opts ==
    /\ call.family = "audio"
    /\ \E ofile \in (1..Len(args.outputs)) \ call.done :
       \E r \in {finalize_audio_read_opts(args, ofile)} :
          /\ args' = r.args
          /\ ret' = [ret EXCEPT ![ofile] = [x \in DOMAIN r \ {"args"} |-> r[x]]]
          /\ call' = [call EXCEPT !.op = "finalize_audio_read_opts",
                                  !.done = @ \cup {ofile}]
    /\ UNCHANGED <<probe, pre>>

\* output option dicts of a raw audio read
AudioOutOpts(maps, fmts, acs, afs) ==
    {DictOf({"map", "ar", "sample_fmt", "ac", c.af},
            [k \in {"map", "ar", "sample_fmt", "ac", c.af} |->
                IF k = "map" THEN c.map
                ELSE IF k = "ar" THEN c.ar
                ELSE IF k = "sample_fmt" THEN c.sample_fmt
                ELSE IF k = "ac" THEN c.ac
                ELSE "aresample"]) :
        c \in [map : maps, ar : {None, "8000"}, sample_fmt : fmts,
               ac : acs, af : afs]}

InitAudio ==
    /\ \E o1 \in AudioOutOpts({"0:a:0", "[out0]"}, {None, "s16", "s16p", "flt"},
                               {None, "1"}, {"none", "af", "filter:a"}) :
       \E o2 \in AudioOutOpts({"0:a:0"}, {None, "s16"}, {None}, {"none", "af"}) :
       \E inopts \in {EmptyDict, [ar |-> "44100"],
                      [ar |-> "44100", sample_fmt |-> "fltp", ac |-> "2"]} :
          args = [inputs |-> <<[url |-> UrlOf(1), opts |-> inopts]>>,
                  outputs |-> <<[url |-> None, opts |-> Del(o1, "none")],
                                [url |-> None, opts |-> Del(o2, "none")]>>,
                  global_options |-> EmptyDict]
    /\ \E pa \in {<<None, None, None>>, <<"48000", "s16p", "2">>, <<"48000", "dbl", "2">>} :
       \E pf \in {<<None, None, None>>, <<"22050", "fltp", "1">>, <<"22050", "u8", "1">>} :
          probe = [streams |-> <<<<"audio">>>>, fails |-> <<FALSE>>,
                   audio |-> <<pa>>, audio_filtered |-> pf]
    /\ call = [family |-> "audio", op |-> "init", done |-> {}]
    /\ pre = args
    /\ ret = <<None, None>>

NextAudio == Call_finalize_audio_read_opts

SpecAudio == InitAudio /\ [][NextAudio]_vars

\* the outputs finalize_audio_read_opts has returned for
Finalized == IF call.family = "audio" THEN {o \in call.done : ret[o].err = None} ELSE {}

InputProperty(o, k) ==
    LET inopts == pre.inputs[1].opts
        name == <<"ar", "sample_fmt", "ac">>[k]
    IN  Or(Get(inopts, name), probe.audio[1][k])

HasAudioFilter(o) ==
    "af" \in DOMAIN pre.outputs[o].opts \/ "filter:a" \in DOMAIN pre.outputs[o].opts

ExplicitOpt(o, k) == Get(pre.outputs[o].opts, <<"ar", "sample_fmt", "ac">>[k])

-----------------------------------------------------------------------------
(* Writing: add_url, add_urls, add_filtergraph, init_media_write           *)

\* most raw inputs of one write
MaxWriteInputs == 3

\* empty(global_options)
empty == [inputs |-> <<>>, outputs |-> <<>>, global_options |-> EmptyDict]

\* A file entry (url, opts) is [url, opts]; an entry whose option slot is None
\* is [url] alone. An argument that is a dict or None is <<dict>> or <<>>.
NoOpts == <<>>
Opts(d) == <<d>>
SlotIsNone(entry) == "opts" \notin DOMAIN entry

\* args[f"{type}s"]
FileList(a, type) == IF type = "input" THEN a.inputs ELSE a.outputs
SetFileList(a, type, filelist) ==
    IF type = "input" THEN [a EXCEPT !.inputs = filelist] ELSE [a EXCEPT !.outputs = filelist]

\* next((i for i in range(n) if filelist[i][0] == url), None), 1-based, 0 for None
FirstWithUrl(filelist, url) ==
    IF \E i \in 1..Len(filelist) : filelist[i].url = url
    THEN CHOOSE i \in 1..Len(filelist) :
            /\ filelist[i].url = url
            /\ \A j \in 1..(i - 1) : filelist[j].url # url
    ELSE 0

add_url_NoOpts(a, type, url, opts, update) ==
    [args |-> SetFileList(a, type, Append(FileList(a, type), [url |-> url, opts |-> EmptyDict])),
     file_id |-> Len(FileList(a, type))]

add_url_Replace(a, type, url, opts, update) ==
    LET filelist == FileList(a, type)
        found == IF update THEN FirstWithUrl(filelist, url) ELSE 0
        given == IF opts = NoOpts THEN EmptyDict ELSE opts[1]
    IN  IF found = 0
        THEN [args |-> SetFileList(a, type, Append(filelist, [url |-> url, opts |-> given])),
              file_id |-> Len(filelist)]
        ELSE [args |-> SetFileList(a, type,
                          [filelist EXCEPT ![found] = [url |-> url, opts |-> given]]),
              file_id |-> found - 1]

\* add_url(args, type, url, opts, update): [args afterwards, file_id returned];
\* the entry returned is filelist[file_id] of the args afterwards
add_url(a, type, url, opts, update) ==
    LET filelist == FileList(a, type)
        n == Len(filelist)
        found == IF update THEN FirstWithUrl(filelist, url) ELSE 0
    IN  IF found = 0
        THEN [args |-> SetFileList(a, type,
                          Append(filelist, [url |-> url,
                                            opts |-> IF opts = NoOpts THEN EmptyDict
                                                     ELSE opts[1]])),
              file_id |-> n]
        ELSE IF opts # NoOpts
        THEN [args |-> SetFileList(a, type,
                          [filelist EXCEPT ![found] =
                              [url |-> url,
                               opts |-> IF SlotIsNone(filelist[found]) THEN opts[1]
                                        ELSE Merge(filelist[found].opts, opts[1])]]),
              file_id |-> found - 1]
        ELSE [args |-> a, file_id |-> found - 1]

\* add_urls(ffmpeg_args, url_type, urls, update=update) for urls a sequence of
\* items, an item a url string ([url]) or a pair of a url and a dict or None
\* ([url, opts]): [args afterwards, ids: the file ids returned]
RECURSIVE add_urls(_, _, _, _)
add_urls(a, url_type, urls, update) ==
    IF urls = <<>> THEN [args |-> a, ids |-> <<>>]
    ELSE LET item == Head(urls)
             one == add_url(a, url_type, item.url,
                            IF "opts" \in DOMAIN item THEN item.opts ELSE NoOpts, update)
             rest == add_urls(one.args, url_type, Tail(urls), update)
         IN  [args |-> rest.args, ids |-> <<one.file_id>> \o rest.ids]

\* utils.pop_extra_options(options, suffix): the options whose name ends with
\* the suffix, under the name without it, and the options that are left
EndsWith(str, suffix) ==
    /\ Len(str) > Len(suffix)
    /\ SubSeq(str, Len(str) - Len(suffix) + 1, Len(str)) = suffix
StripSuffix(str, suffix) == SubSeq(str, 1, Len(str) - Len(suffix))
pop_extra_options(options, suffix) ==
    LET hit == {k \in DOMAIN options : EndsWith(k, suffix)}
    IN  [extra |-> [n \in {StripSuffix(k, suffix) : k \in hit} |->
                       options[CHOOSE k \in hit : StripSuffix(k, suffix) = n]],
         rest |-> [k \in DOMAIN options \ hit |-> options[k]]]

\* merge_audio(streams, ar, sample_fmt, outpad): the filtergraph that merges
\* the audio inputs streams into one stream on the output pad outpad
merge_audio(streams, outpad) ==
    [outpads |-> <<[label |-> outpad, media |-> "audio"]>>,
     inlabels |-> [k \in 1..Len(streams) |-> ToString(streams[k]) \o ":a"]]

\* filtergraph.iter_output_labels(): the labels of the labeled output pads
iter_output_labels(fg) ==
    LET pads == SelectSeq(iter_output_pads(fg), LAMBDA k : get_label(fg, k) # None)
    IN  [k \in 1..Len(pads) |-> get_label(fg, pads[k])]

\* add_filtergraph(args, filtergraph) with map=None and the default flags, for
\* output 0: the graph joins filter_complex and its output labels join the map
add_filtergraph(a, filtergraph) ==
    LET labels == iter_output_labels(filtergraph)
        map == [k \in 1..Len(labels) |-> PyStr("[" \o labels[k] \o "]")]
        gopts == a.global_options
        \* a single graph stands as the one-element list as_multi_option makes of it
        complex_filters == IF "filter_complex" \notin DOMAIN gopts THEN <<filtergraph>>
                           ELSE Append(gopts["filter_complex"], filtergraph)
        a1 == [a EXCEPT !.global_options = Put(gopts, "filter_complex", complex_filters)]
        outopts == a.outputs[1].opts
    IN  IF Len(map) = 0 THEN a1
        ELSE [a1 EXCEPT !.outputs[1].opts =
                 Put(outopts, "map",
                     IF "map" \in DOMAIN outopts THEN outopts["map"] \o map ELSE map)]

\* the path of the i-th named pipe NPopen creates (0-based)
PipePath(i) == "pipe" \o ToString(i)

\* [i for i in seq if i not in excluded]
Without_KeepAll(seq, excluded) == seq

Without(seq, excluded) == SelectSeq(seq, LAMBDA x : \A e \in excluded : ~PyEq(x, PyInt(e)))

\* list(range(n)) as a list of Python ints
RangeList(n) == [k \in 1..n |-> PyInt(k - 1)]

\* init_media_write(url, input_opts, merge_audio_streams, merge_audio_ar,
\* merge_audio_sample_fmt, merge_audio_outpad, extra_inputs, options):
\* [args, pipes, err]; merge_audio_streams is [bool |-> b] or [list |-> indices],
\* extra_inputs is the sequence of urls, empty for None (nothing is added)
init_media_write(url, input_opts, merge_audio_streams, merge_audio_outpad, extra_inputs, options0) ==
    LET n_in == Len(input_opts)
        popped == pop_extra_options(options0, "_in")
        default_in_opts == popped.extra
        options == popped.rest
        AddPipes[k \in 0..n_in] ==
            IF k = 0 THEN empty
            ELSE add_url(AddPipes[k - 1], "input", PipePath(k - 1),
                         Opts(Merge(default_in_opts, input_opts[k])), FALSE).args
        pipes == [k \in 1..n_in |-> PipePath(k - 1)]
        audio == {i \in 0..(n_in - 1) : "ar" \in DOMAIN input_opts[i + 1]}
        n_ain == Cardinality(audio)
        map == IF "map" \in DOMAIN options THEN options["map"] ELSE RangeList(n_in)
        is_true == "bool" \in DOMAIN merge_audio_streams
        asked == IF is_true THEN merge_audio_streams.bool
                 ELSE Len(merge_audio_streams.list) > 0
        do_merge == asked /\ n_ain > 1
        merged_seq == IF is_true
                      THEN SelectSeq([k \in 1..n_in |-> k - 1], LAMBDA i : i \in audio)
                      ELSE merge_audio_streams.list
        merged == {merged_seq[k] : k \in 1..Len(merged_seq)}
        bad == do_merge /\ ~is_true /\ ~(merged \subseteq audio)
        options1 == IF do_merge THEN Put(options, "map", Without(map, merged)) ELSE options
        a1 == add_url(AddPipes[n_in], "output", url, Opts(options1), FALSE).args
        a2 == add_urls(a1, "input", [k \in 1..Len(extra_inputs) |-> [url |-> extra_inputs[k]]],
                       FALSE).args
        a3 == IF do_merge
              THEN add_filtergraph(a2, merge_audio(merged_seq,
                        IF Truthy(merge_audio_outpad) THEN merge_audio_outpad ELSE "aout"))
              ELSE a2
    IN  IF bad THEN [args |-> empty, pipes |-> pipes, err |-> "ValueError"]
        ELSE [args |-> a3, pipes |-> pipes, err |-> None]

Call_init_media_write ==
    /\ call.family = "write"
    /\ call.op = "init"
    /\ LET r == init_media_write(call.url, call.input_opts, call.merge_audio_streams,
                                 call.merge_audio_outpad, call.extra_inputs, call.options)
       IN  /\ args' = r.args
           /\ ret' = [pipes |-> r.pipes, err |-> r.err,
                      returned |-> IF r.err = None THEN r.pipes ELSE <<>>,
                      closed |-> <<>>]
    /\ pre' = args
    /\ call' = [call EXCEPT !.op = "init_media_write"]
    /\ UNCHANGED probe

InitWrite ==
    /\ \E n \in 1..MaxWriteInputs :
       \E kinds \in [1..n -> {"r", "ar"}] :
       \E merge \in {[bool |-> FALSE], [bool |-> TRUE], [list |-> <<0, 1>>], [list |-> <<1>>]} :
       \E map \in {None, "first", "reversed"} :
       \E extra \in {<<>>, <<"extra.wav">>} :
       \E f_in \in BOOLEAN :
       \E n_opt \in BOOLEAN :
       \E outpad \in {None, "merged"} :
          call = [family |-> "write", op |-> "init",
                  url |-> "out.mp4",
                  input_opts |-> [k \in 1..n |->
                      IF kinds[k] = "r" THEN [r |-> "30"] ELSE [ar |-> "44100"]],
                  merge_audio_streams |-> merge,
                  merge_audio_outpad |-> outpad,
                  extra_inputs |-> extra,
                  options |->
                      Merge(Merge(IF map = None THEN EmptyDict
                                  ELSE IF map = "first" THEN [map |-> <<PyInt(0)>>]
                                  ELSE [map |-> [k \in 1..n |-> PyInt(n - k)]],
                                  IF f_in THEN [f_in |-> "rawvideo", shortest |-> None]
                                  ELSE [shortest |-> None]),
                            IF n_opt THEN [n |-> None] ELSE EmptyDict)]
    /\ args = empty
    /\ probe = NoProbe
    /\ pre = args
    /\ ret = <<>>

NextWrite == Call_init_media_write

SpecWrite == InitWrite /\ [][NextWrite]_vars

\* C10: init_media_write creates one pipe-backed input per element of
\* input_opts, in order, input i having the url of pipe i and the extra inputs
\* coming after them, and when the caller gives no map option the output
\* entry's map option lists all these inputs in order, 0..N-1, whether or not
\* audio merging takes place.
C10_PipesInOrderAndDefaultMap ==
    (call.op = "init_media_write" /\ ret.err = None) =>
        LET n == Len(call.input_opts)
        IN  /\ Len(ret.pipes) = n
            /\ Len(args.inputs) =
                  n + Len(call.extra_inputs)
            /\ \A i \in 1..n : args.inputs[i].url = ret.pipes[i]
            /\ "map" \notin DOMAIN call.options =>
                  /\ "map" \in DOMAIN args.outputs[1].opts
                  /\ args.outputs[1].opts["map"] = RangeList(n)

\* what the caller of init_media_write asked for, read off the arguments
AudioInputs == {i \in 0..(Len(call.input_opts) - 1) : "ar" \in DOMAIN call.input_opts[i + 1]}
MergeAsked ==
    IF "bool" \in DOMAIN call.merge_audio_streams THEN call.merge_audio_streams.bool
    ELSE Len(call.merge_audio_streams.list) > 0
MergeInEffect == MergeAsked /\ Cardinality(AudioInputs) > 1
MergedInputs ==
    IF "bool" \in DOMAIN call.merge_audio_streams THEN AudioInputs
    ELSE {call.merge_audio_streams.list[k] : k \in 1..Len(call.merge_audio_streams.list)}
MapAsked ==
    IF "map" \in DOMAIN call.options THEN call.options["map"]
    ELSE [k \in 1..Len(call.input_opts) |-> PyInt(k - 1)]
MergePadLabel ==
    "[" \o (IF call.merge_audio_outpad = None THEN "aout" ELSE call.merge_audio_outpad) \o "]"
IsMerged(x) == x.t = "int" /\ x.v \in MergedInputs

-----------------------------------------------------------------------------
(* get_option                                                              *)

\* get_option(ffmpeg_args, type, name, file_id, stream_type, stream_id), the
\* args a dict: [err, value]; stream_id is <<>> for None, else <<index>>.
\* names holds the keys from the plain name to the most specific one and the
\* loop pops from its end while the value it gets is None.
RECURSIVE LookUp_FirstPresent(_, _)
LookUp_FirstPresent(opts, names) ==
    IF names = <<>> THEN None
    ELSE IF names[Len(names)] \in DOMAIN opts THEN opts[names[Len(names)]]
    ELSE LookUp_FirstPresent(opts, SubSeq(names, 1, Len(names) - 1))

RECURSIVE LookUp(_, _)
LookUp(opts, names) ==
    IF names = <<>> THEN None
    ELSE LET v == Get(opts, names[Len(names)])
         IN  IF v = None THEN LookUp(opts, SubSeq(names, 1, Len(names) - 1)) ELSE v

OptionNames(name, stream_type, stream_id) ==
    IF stream_type = None THEN <<name>>
    ELSE IF stream_id = <<>> THEN <<name, name \o ":" \o stream_type>>
    ELSE <<name, name \o ":" \o stream_type,
           name \o ":" \o stream_type \o ":" \o ToString(stream_id[1])>>

\* str.startswith(prefix)
StartsWith(str, prefix) ==
    Len(str) >= Len(prefix) /\ SubSeq(str, 1, Len(prefix)) = prefix

get_option(a, type, name, file_id, stream_type, stream_id) ==
    IF StartsWith(type, "global")
    THEN IF "global_options" \notin DOMAIN a THEN [err |-> None, value |-> None]
         ELSE [err |-> None, value |-> LookUp(a.global_options, <<name>>)]
    ELSE IF (type \o "s") \notin DOMAIN a THEN [err |-> None, value |-> None]
    ELSE LET filelists == a[type \o "s"]
         IN  IF file_id >= Len(filelists) THEN [err |-> "IndexError", value |-> None]
             ELSE IF SlotIsNone(filelists[file_id + 1]) THEN [err |-> None, value |-> None]
             ELSE [err |-> None,
                   value |-> LookUp(filelists[file_id + 1].opts,
                                    OptionNames(name, stream_type, stream_id))]

Call_get_option ==
    /\ call.family = "option"
    /\ call.op = "init"
    /\ \E type \in {"input", "output", "global"}, name \in {"c", "y"}, file_id \in {0, 1},
          stream_type \in {None, "v"}, stream_id \in {<<>>, <<0>>} :
          /\ ret' = get_option(args, type, name, file_id, stream_type, stream_id)
          /\ call' = [call EXCEPT !.op = "get_option", !.type = type, !.name = name,
                                  !.file_id = file_id, !.stream_type = stream_type,
                                  !.stream_id = stream_id]
    /\ pre' = args
    /\ UNCHANGED <<args, probe>>

\* the argument structure of test_get_option, the codec options of its first
\* output each being absent, present without a value (None) or set
InitOption ==
    /\ \E c0 \in {"absent", None, "0"}, c1 \in {"absent", None, "1"}, c2 \in {"absent", None, "2"} :
       \E with_lists \in BOOLEAN :
          LET all == [x \in {"c", "c:v", "c:v:0"} |->
                          IF x = "c" THEN c0 ELSE IF x = "c:v" THEN c1 ELSE c2]
              opts == [x \in {k \in DOMAIN all : all[k] # "absent"} |-> all[x]]
          IN  args = IF with_lists
                     THEN [inputs |-> <<[url |-> "file1"]>>,
                           outputs |-> <<[url |-> "file2", opts |-> opts],
                                         [url |-> "file3", opts |-> [ac |-> "2"]]>>,
                           global_options |-> [y |-> "True"]]
                     ELSE [global_options |-> opts]
    /\ probe = NoProbe
    /\ call = [family |-> "option", op |-> "init", type |-> None, name |-> None,
               file_id |-> 0, stream_type |-> None, stream_id |-> <<>>]
    /\ pre = args
    /\ ret = <<>>

NextOption == Call_get_option

SpecOption == InitOption /\ [][NextOption]_vars

\* the keys get_option may use for the call made, the most specific first
KeysTried ==
    LET n == OptionNames(call.name, call.stream_type, call.stream_id)
    IN  [k \in 1..Len(n) |-> n[Len(n) + 1 - k]]

\* C13: get_option on a file entry's options returns the value stored under
\* the first of name:type:index, name:type, name (those the stream type and
\* index given allow) that is present in the option mapping, None when none
\* is; a more specific key that is present with the value None decides the
\* result.
C13_FirstPresentKeyDecides ==
    (/\ call.op = "get_option" /\ call.type = "output" /\ ret.err = None
     /\ "outputs" \in DOMAIN args) =>
        LET opts == args.outputs[call.file_id + 1].opts
            present == {k \in 1..Len(KeysTried) : KeysTried[k] \in DOMAIN opts}
        IN  ret.value = IF present = {} THEN None
                        ELSE opts[KeysTried[CHOOSE k \in present : \A j \in present : k <= j]]

\* C13 amended: get_option on a file entry's options returns the first value
\* that is not None among those stored under name:type:index, name:type, name
\* (those the stream type and index given allow), in that order, None when
\* there is none; a key that is present with the value None is passed over
\* like an absent one. On {c:0, c:v:1, c:v:0:2} it returns 2 with type v and
\* index 0, 1 with type v only, 0 with neither.
C13_FirstValueDecides ==
    (/\ call.op = "get_option" /\ call.type = "output" /\ ret.err = None
     /\ "outputs" \in DOMAIN args) =>
        LET opts == args.outputs[call.file_id + 1].opts
            valued == {k \in 1..Len(KeysTried) : Get(opts, KeysTried[k]) # None}
        IN  /\ ret.value = IF valued = {} THEN None
                           ELSE opts[KeysTried[CHOOSE k \in valued : \A j \in valued : k <= j]]
            /\ (call.name = "c" /\ call.file_id = 0 /\ DOMAIN opts = {"c", "c:v", "c:v:0"}
                  /\ opts["c"] = "0" /\ opts["c:v"] = "1" /\ opts["c:v:0"] = "2") =>
                  ret.value = (IF call.stream_type = None THEN "0"
                               ELSE IF call.stream_id = <<>> THEN "1" ELSE "2")

\* c:v:0 is present without a value and the call for type v, index 0 returned
\* the value of c:v
C13_Witness ==
    /\ call.op = "get_option" /\ call.type = "output" /\ call.name = "c" /\ call.file_id = 0
    /\ call.stream_type = "v" /\ call.stream_id = <<0>>
    /\ "outputs" \in DOMAIN args
    /\ "c:v:0" \in DOMAIN args.outputs[1].opts /\ args.outputs[1].opts["c:v:0"] = None
    /\ Get(args.outputs[1].opts, "c:v") = "1"
    /\ ret.value = "1"

-----------------------------------------------------------------------------
(* add_url and add_urls called one after the other on one argument dict    *)

\* most add_url / add_urls calls made in a row
MaxUrlCalls == 2

Call_add_url ==
    /\ call.family = "url"
    /\ call.n < MaxUrlCalls
    /\ \E type \in {"input", "output"}, url \in {"test.mp4", "test2.wav"}, update \in BOOLEAN,
          opts \in {NoOpts, Opts([f |-> "rawvideo"]), Opts([f |-> "mp4", codec |-> "h264"])} :
       \E r \in {add_url(args, type, url, opts, update)} :
          /\ args' = r.args
          /\ ret' = [file_id |-> r.file_id]
          /\ call' = [call EXCEPT !.op = "add_url", !.n = @ + 1, !.type = type, !.url = url,
                                  !.opts = opts, !.update = update]
    /\ pre' = args
    /\ UNCHANGED probe

Call_add_urls ==
    /\ call.family = "url"
    /\ call.n < MaxUrlCalls
    /\ \E update \in BOOLEAN :
       \E urls \in {<<[url |-> "test.mp4"]>>, <<[url |-> "test.mp4", opts |-> NoOpts]>>,
                    <<[url |-> "test2.wav", opts |-> Opts(EmptyDict)]>>,
                    <<[url |-> "test.mp4"], [url |-> "test2.wav"]>>} :
       \E r \in {add_urls(args, "input", urls, update)} :
          /\ args' = r.args
          /\ ret' = [ids |-> r.ids]
          /\ call' = [call EXCEPT !.op = "add_urls", !.n = @ + 1, !.type = "input",
                                  !.url = urls, !.opts = NoOpts, !.update = update]
    /\ pre' = args
    /\ UNCHANGED probe

\* empty(), or an argument dict that lists an input without options by hand
InitUrl ==
    /\ args \in {empty, [empty EXCEPT !.inputs = <<[url |-> "test.mp4"]>>]}
    /\ probe = NoProbe
    /\ call = [family |-> "url", op |-> "init", n |-> 0, type |-> None, url |-> None,
               opts |-> NoOpts, update |-> FALSE]
    /\ pre = args
    /\ ret = <<>>

NextUrl == Call_add_url \/ Call_add_urls

SpecUrl == InitUrl /\ [][NextUrl]_vars

\* the url of the last add_url call is listed before the call
UrlListed == \E i \in 1..Len(FileList(pre, call.type)) : FileList(pre, call.type)[i].url = call.url
FirstListed ==
    CHOOSE i \in 1..Len(FileList(pre, call.type)) :
        /\ FileList(pre, call.type)[i].url = call.url
        /\ \A j \in 1..(i - 1) : FileList(pre, call.type)[j].url # call.url

\* C14: add_url with update=True and a url already listed merges the new opts
\* into that entry's options (new values win, other keys are kept), returns
\* that entry's index and leaves the list length alone; with update=False or
\* a url not listed it appends an entry and returns the previous length;
\* entries at other indices are never changed.
C14_AddUrlUpdateOrAppend ==
    call.op = "add_url" =>
        LET before == FileList(pre, call.type)
            after == FileList(args, call.type)
        IN  IF call.update /\ UrlListed
            THEN /\ Len(after) = Len(before)
                 /\ ret.file_id = FirstListed - 1
                 /\ \A i \in 1..Len(before) : i # FirstListed => after[i] = before[i]
                 /\ after[FirstListed].url = call.url
                 /\ call.opts # NoOpts =>
                       LET new == call.opts[1]
                           old == IF SlotIsNone(before[FirstListed]) THEN EmptyDict
                                  ELSE before[FirstListed].opts
                           now == after[FirstListed].opts
                       IN  /\ DOMAIN now = DOMAIN old \cup DOMAIN new
                           /\ \A k \in DOMAIN new : now[k] = new[k]
                           /\ \A k \in DOMAIN old \ DOMAIN new : now[k] = old[k]
                 /\ call.opts = NoOpts => after[FirstListed] = before[FirstListed]
            ELSE /\ Len(after) = Len(before) + 1
                 /\ ret.file_id = Len(before)
                 /\ \A i \in 1..Len(before) : after[i] = before[i]
                 /\ after[Len(after)].url = call.url

\* an entry with options {f: rawvideo} was updated with {f: mp4, codec: h264}
C14_Witness ==
    /\ call.op = "add_url" /\ call.update /\ UrlListed
    /\ ~SlotIsNone(FileList(pre, call.type)[FirstListed])
    /\ FileList(pre, call.type)[FirstListed].opts = [f |-> "rawvideo"]
    /\ FileList(args, call.type)[FirstListed].opts = [f |-> "mp4", codec |-> "h264"]
    /\ Len(FileList(args, call.type)) = Len(FileList(pre, call.type))

\* C15: add_url, and add_urls, called with opts=None for a url not yet listed
\* on an argument dict without inputs registers the entry (url, None), the
\* option slot staying None, and returns index 0.
C15_NoneOptsStaysNone ==
    (/\ call.op \in {"add_url", "add_urls"} /\ call.type = "input" /\ call.opts = NoOpts
     /\ pre.inputs = <<>>) =>
        /\ Len(args.inputs) >= 1
        /\ SlotIsNone(args.inputs[1])
        /\ call.op = "add_url" => ret.file_id = 0
        /\ call.op = "add_urls" => ret.ids[1] = 0

-----------------------------------------------------------------------------
(* merge_user_options                                                      *)
(* Here an option mapping is an insertion-ordered dict, a sequence of      *)
(* [k, v] with k a Python str key, so that the order of the keys is seen;  *)
(* an argument dict may have no global_options key.                        *)

\* most merge_user_options calls made in a row
MaxMerges == 2

\* {**a, **b}: the keys of a keep their places, new keys of b follow in b's order
RECURSIVE ODictMerge(_, _)
ODictMerge(a, b) ==
    IF b = <<>> THEN a ELSE ODictMerge(ODictSet(a, Head(b).k, Head(b).v), Tail(b))

merge_user_options_UserFirst(a, type, user_options, file_index) ==
    IF type = "global"
    THEN [err |-> None,
          args |-> IF "global_options" \notin DOMAIN a
                   THEN ("global_options" :> user_options) @@ a
                   ELSE [a EXCEPT !.global_options = ODictMerge(user_options, @)]]
    ELSE LET filelist == a[type \o "s"]
             idx == IF file_index = <<>> THEN 0 ELSE file_index[1]
         IN  IF Len(filelist) <= idx THEN [err |-> "Exception", args |-> a]
             ELSE [err |-> None,
                   args |-> [a EXCEPT ![type \o "s"][idx + 1] =
                               [url |-> @.url,
                                opts |-> IF SlotIsNone(@) THEN user_options
                                         ELSE ODictMerge(user_options, @.opts)]]]

\* merge_user_options(ffmpeg_args, type, user_options, file_index):
\* [err, args afterwards]; file_index is <<>> for None, else <<index>>
merge_user_options(a, type, user_options, file_index) ==
    IF type = "global"
    THEN [err |-> None,
          args |-> IF "global_options" \notin DOMAIN a
                   THEN ("global_options" :> user_options) @@ a
                   ELSE [a EXCEPT !.global_options = ODictMerge(@, user_options)]]
    ELSE IF (type \o "s") \notin DOMAIN a THEN [err |-> "Exception", args |-> a]
    ELSE LET filelist == a[type \o "s"]
             idx == IF file_index = <<>> THEN 0 ELSE file_index[1]
         IN  IF Len(filelist) <= idx THEN [err |-> "Exception", args |-> a]
             ELSE [err |-> None,
                   args |-> [a EXCEPT ![type \o "s"][idx + 1] =
                               [url |-> @.url,
                                opts |-> IF SlotIsNone(@) THEN user_options
                                         ELSE ODictMerge(@.opts, user_options)]]]

\* an ordered dict from a sequence of <<key, value>>
OD(pairs) == [i \in 1..Len(pairs) |-> [k |-> PyStr(pairs[i][1]), v |-> pairs[i][2]]]

UserOptions ==
    {OD(<<>>), OD(<<<<"y", None>>>>), OD(<<<<"r", "25">>, <<"f", "avi">>>>),
     OD(<<<<"pix_fmt", "gray">>, <<"f", "mp4">>>>)}

Call_merge_user_options ==
    /\ call.family = "merge"
    /\ call.n < MaxMerges
    /\ \E type \in {"global", "input", "output"}, user_options \in UserOptions,
          file_index \in {<<>>, <<0>>, <<1>>, <<2>>} :
       \E r \in {merge_user_options(args, type, user_options, file_index)} :
          /\ args' = r.args
          /\ ret' = [err |-> r.err]
          /\ call' = [call EXCEPT !.op = "merge_user_options", !.n = @ + 1, !.type = type,
                                  !.user_options = user_options, !.file_index = file_index]
    /\ pre' = args
    /\ UNCHANGED probe

InitMerge ==
    /\ \E with_global \in BOOLEAN :
          LET files == [inputs |-> <<[url |-> "in0", opts |-> OD(<<<<"f", "mp4">>, <<"r", "30">>>>)],
                                     [url |-> "in1"]>>,
                        outputs |-> <<[url |-> "out0",
                                       opts |-> OD(<<<<"c:v", "h264">>, <<"f", "mov">>,
                                                     <<"pix_fmt", "rgb24">>>>)]>>]
          IN  args = IF with_global
                     THEN ("global_options" :> OD(<<<<"loglevel", "quiet">>, <<"y", "1">>>>)) @@ files
                     ELSE files
    /\ probe = NoProbe
    /\ call = [family |-> "merge", op |-> "init", n |-> 0, type |-> None,
               user_options |-> <<>>, file_index |-> <<>>]
    /\ pre = args
    /\ ret = <<>>

NextMerge == Call_merge_user_options

SpecMerge == InitMerge /\ [][NextMerge]_vars

\* the option mapping the last merge_user_options call aimed at, in a, <<>> for None
TargetOpts(a) ==
    IF call.type = "global"
    THEN IF "global_options" \in DOMAIN a THEN a.global_options ELSE <<>>
    ELSE LET e == a[call.type \o "s"][(IF call.file_index = <<>> THEN 0 ELSE call.file_index[1]) + 1]
         IN  IF SlotIsNone(e) THEN <<>> ELSE e.opts

\* the entries of an ordered dict whose key is not a key of user
NotIn(d, user) == SelectSeq(d, LAMBDA e : ~ODictHas(user, e.k))

\* C16: after merge_user_options the option mapping aimed at is the mapping
\* it was merged with user_options, the caller's values winning; every key
\* not in user_options keeps its value and its place among the others; the
\* url of the entry, the other file entries and the other option scopes are
\* unchanged.
C16_MergeUserOptions ==
    (call.op = "merge_user_options" /\ ret.err = None) =>
        LET old == TargetOpts(pre)
            now == TargetOpts(args)
            user == call.user_options
            idx == (IF call.file_index = <<>> THEN 0 ELSE call.file_index[1]) + 1
        IN  /\ \A i \in 1..Len(user) :
                  \E j \in 1..Len(now) : PyEq(now[j].k, user[i].k) /\ now[j].v = user[i].v
            /\ \A j \in 1..Len(now) : ODictHas(old, now[j].k) \/ ODictHas(user, now[j].k)
            /\ \A i, j \in 1..Len(now) : PyEq(now[i].k, now[j].k) => i = j
            /\ NotIn(now, user) = NotIn(old, user)
            /\ \A t \in {"inputs", "outputs"} :
                  /\ Len(args[t]) = Len(pre[t])
                  /\ \A i \in 1..Len(pre[t]) :
                        /\ args[t][i].url = pre[t][i].url
                        /\ (call.type \o "s" # t \/ i # idx) => args[t][i] = pre[t][i]
            /\ (call.type # "global" /\ "global_options" \in DOMAIN pre) =>
                  args.global_options = pre.global_options
            /\ (call.type # "global") => DOMAIN args = DOMAIN pre

\* options {f: mp4, r: 30} merged with {r: 25, f: avi}: both values replaced,
\* the keys where they were
C16_Witness ==
    /\ call.op = "merge_user_options" /\ ret.err = None
    /\ call.type = "input"
    /\ TargetOpts(pre) = OD(<<<<"f", "mp4">>, <<"r", "30">>>>)
    /\ call.user_options = OD(<<<<"r", "25">>, <<"f", "avi">>>>)
    /\ TargetOpts(args) = OD(<<<<"f", "avi">>, <<"r", "25">>>>)

-----------------------------------------------------------------------------
(* has_filtergraph                                                         *)

MatchesFilterOpt_AnyType(key, short_opt, other_st) ==
    key = short_opt \/ key = "filter" \/ (Len(key) >= 8 /\ StartsWith(key, "filter:"))

\* re_opt.match(key) for rf"{short_opt}$|filter(?::(?=[^{other_st}]).*?)?$":
\* the key is the short name, or filter, or filter: followed by at least one
\* character the first of which is not other_st
MatchesFilterOpt(key, short_opt, other_st) ==
    \/ key = short_opt
    \/ key = "filter"
    \/ (Len(key) >= 8 /\ StartsWith(key, "filter:") /\ SubSeq(key, 8, 8) # other_st)

\* has_filtergraph(args, type), type video or audio
has_filtergraph(a, type) ==
    LET short_opt == IF type = "video" THEN "vf" ELSE "af"
        other_st == IF type = "video" THEN "a" ELSE "v"
    IN  IF "global_options" \in DOMAIN a
           /\ ("filter_complex" \in DOMAIN a.global_options \/ "lavfi" \in DOMAIN a.global_options)
        THEN TRUE
        ELSE IF \E i \in 1..Len(a.inputs) :
                   ~SlotIsNone(a.inputs[i]) /\ Get(a.inputs[i].opts, "f") = "lavfi"
        THEN TRUE
        ELSE \E i \in 1..Len(a.outputs) :
                \E key \in DOMAIN a.outputs[i].opts : MatchesFilterOpt(key, short_opt, other_st)

Call_has_filtergraph ==
    /\ call.family = "hasfg"
    /\ call.op = "init"
    /\ \E type \in {"video", "audio"} :
          /\ ret' = [value |-> has_filtergraph(args, type)]
          /\ call' = [call EXCEPT !.op = "has_filtergraph", !.type = type]
    /\ pre' = args
    /\ UNCHANGED <<args, probe>>

\* output option names: the filter options in their forms and others
OutputOptNames ==
    {"vf", "af", "filter", "filter:v", "filter:a", "filter:a:0", "filter:v:0", "filter:0",
     "filter:", "filters", "vframes", "c:v"}

InitHasFg ==
    /\ \E gopts \in {"absent", "empty", "filter_complex", "lavfi", "y"} :
       \E inopts \in {"none", "lavfi", "mp4", "empty"} :
       \E k1 \in OutputOptNames \cup {"none"}, k2 \in OutputOptNames \cup {"none", "no output"} :
          LET in_entry == IF inopts = "none" THEN [url |-> "in0"]
                          ELSE [url |-> "in0",
                                opts |-> IF inopts = "empty" THEN EmptyDict ELSE [f |-> inopts]]
              out(k) == [url |-> "out", opts |-> IF k = "none" THEN EmptyDict ELSE (k :> "x")]
              files == [inputs |-> <<in_entry>>,
                        outputs |-> IF k2 = "no output" THEN <<out(k1)>> ELSE <<out(k1), out(k2)>>]
          IN  args = IF gopts = "absent" THEN files
                     ELSE ("global_options" :>
                              (IF gopts = "empty" THEN EmptyDict ELSE (gopts :> "x"))) @@ files
    /\ probe = NoProbe
    /\ call = [family |-> "hasfg", op |-> "init", type |-> None]
    /\ pre = args
    /\ ret = <<>>

NextHasFg == Call_has_filtergraph

SpecHasFg == InitHasFg /\ [][NextHasFg]_vars

\* the stream specifiers an option name may carry
StreamSpecTexts == {"v", "a", "V", "s", "0", "v:0", "a:0"}

\* an output option name that names a filter for the media type asked about
NamesFilterFor(key, type) ==
    \/ key = (IF type = "video" THEN "vf" ELSE "af")
    \/ key = "filter"
    \/ \E spec \in StreamSpecTexts :
          /\ key = "filter:" \o spec
          /\ SubSeq(spec, 1, 1) # (IF type = "video" THEN "a" ELSE "v")

\* C17: has_filtergraph(args, type) is true exactly when the global options
\* hold filter_complex or lavfi, or an input has the option f=lavfi, or an
\* output has an option named by the type's short alias (vf, af) or named
\* filter, alone or followed by : and a stream specifier that does not start
\* with the letter of the opposite media type; it is false otherwise, also for
\* outputs that only carry the opposite type's filter option.
C17_HasFiltergraphIff ==
    call.op = "has_filtergraph" =>
        (ret.value <=>
            \/ /\ "global_options" \in DOMAIN args
               /\ \E g \in {"filter_complex", "lavfi"} : g \in DOMAIN args.global_options
            \/ \E i \in 1..Len(args.inputs) :
                  "opts" \in DOMAIN args.inputs[i] /\ "f" \in DOMAIN args.inputs[i].opts
                  /\ args.inputs[i].opts["f"] = "lavfi"
            \/ \E i \in 1..Len(args.outputs) : \E key \in DOMAIN args.outputs[i].opts :
                  NamesFilterFor(key, call.type))

\* asked about video, the outputs carry only audio filter options and the
\* answer is false; and asked about audio with filter:0 the answer is true
C17_Witness ==
    /\ call.op = "has_filtergraph"
    /\ Len(args.outputs) = 2
    /\ \/ /\ call.type = "video" /\ ~ret.value
          /\ DOMAIN args.outputs[1].opts = {"af"} /\ DOMAIN args.outputs[2].opts = {"filter:a:0"}
       \/ /\ call.type = "audio" /\ ret.value
          /\ DOMAIN args.outputs[1].opts = {"vf"} /\ DOMAIN args.outputs[2].opts = {"filter:0"}


-----------------------------------------------------------------------------
(* analyze_fg_outputs called again on the labeled filtergraphs *)

\* the returned map as a Python dict compares: by its items, not their order
MapItems(m) == {m[i] : i \in 1..Len(m)}

\* is every output pad of the filtergraphs of a labeled
FullyLabeled(a) ==
    /\ "filter_complex" \in DOMAIN a.global_options
    /\ AllUnlabeledPads(as_filtergraph_list(a.global_options)) = <<>>

\* C18: analyze_fg_outputs is idempotent: called right after a first call, on
\* filtergraphs whose output pads are all labeled by then, it leaves the
\* filtergraph list as it is and returns the same map as the first call
C18_SecondCallSameMap ==
    [][(/\ call.op = "analyze_fg_outputs"
        /\ call'.op = "analyze_fg_outputs"
        /\ FullyLabeled(args))
       => (/\ args' = args
           /\ MapItems(ret') = MapItems(ret))]_vars


\* the output pad labels of the filtergraphs of a, filtergraph by filtergraph
PadLabels(a) ==
    LET fcs == as_filtergraph_list(a.global_options)
    IN  [g \in 1..Len(fcs) |-> [k \in 1..Len(fcs[g].outpads) |-> get_label(fcs[g], k)]]

\* C19: analyze_fg_outputs never changes, renumbers or removes a label an
\* output pad already carries: after the call the filtergraphs have the pads
\* they had, every pad labeled before the call has the same label, and only
\* pads that were unlabeled before the call have a new one
C19_ExistingLabelsKept ==
    (call.op = "analyze_fg_outputs" /\ "filter_complex" \in DOMAIN pre.global_options)
    => /\ DOMAIN PadLabels(args) = DOMAIN PadLabels(pre)
       /\ \A g \in DOMAIN PadLabels(pre) :
             /\ DOMAIN PadLabels(args)[g] = DOMAIN PadLabels(pre)[g]
             /\ \A k \in DOMAIN PadLabels(pre)[g] :
                   /\ PadLabels(pre)[g][k] # None
                      => PadLabels(args)[g][k] = PadLabels(pre)[g][k]
                   /\ PadLabels(args)[g][k] # PadLabels(pre)[g][k]
                      => PadLabels(pre)[g][k] = None
                   /\ as_filtergraph_list(args.global_options)[g].outpads[k].media
                      = as_filtergraph_list(pre.global_options)[g].outpads[k].media
       /\ \A g \in DOMAIN PadLabels(pre) :
             iter_input_labels(as_filtergraph_list(args.global_options)[g])
             = iter_input_labels(as_filtergraph_list(pre.global_options)[g])

\* a call that labeled an unlabeled pad of filtergraphs in which another pad
\* carried an out<N> label and another a label of the caller's own
C19_Witness ==
    /\ call.op = "analyze_fg_outputs"
    /\ "filter_complex" \in DOMAIN pre.global_options
    /\ \E g1, g2, g3 \in DOMAIN PadLabels(pre) :
       \E k1 \in DOMAIN PadLabels(pre)[g1] :
       \E k2 \in DOMAIN PadLabels(pre)[g2] :
       \E k3 \in DOMAIN PadLabels(pre)[g3] :
          /\ PadLabels(pre)[g1][k1] = None
          /\ PadLabels(args)[g1][k1] # None
          /\ MatchOut(PadLabels(pre)[g2][k2]) # {}
          /\ PadLabels(pre)[g3][k3] = "vout"


-----------------------------------------------------------------------------
(* retrieve_input_stream_ids when the probe fails *)

\* the input files (1-based) whose probe fails
FailedInputs == {f \in 1..Len(probe.streams) : probe.fails[f]}

\* the entries of the returned map that belong to input file f
EntriesOf(f) == {e \in 1..Len(ret) : ret[e].v.input_file_id = f - 1}

\* C20: retrieve_input_stream_ids never propagates a failure of the probe: it
\* returns an empty stream list for an input whose probe fails, so auto_map
\* completes, maps no stream of that input and still maps every audio and
\* video stream of the inputs whose probe succeeds
C20_ProbeFailureGivesNoStreams ==
    (call.op = "auto_map" /\ "filter_complex" \notin DOMAIN pre.global_options) =>
        \A f \in 1..Len(probe.streams) :
            IF f \in FailedInputs
            THEN /\ retrieve_input_stream_ids(f, NoStreamSpec) = <<>>
                 /\ EntriesOf(f) = {}
            ELSE Cardinality(EntriesOf(f))
                 = Cardinality({fp \in MappableStreams : fp[1] = f})

\* auto_map ran over an input whose probe fails although the file holds an
\* audio or video stream, followed by an input that is probed and mapped
C20_Witness ==
    /\ call.op = "auto_map"
    /\ "filter_complex" \notin DOMAIN pre.global_options
    /\ \E f \in FailedInputs : \E g \in 1..Len(probe.streams) :
          /\ f < g
          /\ \E p \in 1..Len(probe.streams[f]) : probe.streams[f][p] \in MediaType
          /\ g \notin FailedInputs
          /\ EntriesOf(g) # {}


-----------------------------------------------------------------------------
(* process_url_inputs *)

\* inputs listed in one call of process_url_inputs
MaxUrlInputs == 2

\* the values a caller lists as inputs, by name, and the Python type of each
InputValues ==
    {"video.mp4", "color=c=pink [out0]", "<FilterGraph>", "<fileobj>", "<bytes>",
     "<FFConcat>", "<int>"}

UrlKind(url) ==
    CASE url \in {"video.mp4", "color=c=pink [out0]"} -> "str"
      [] url = "<FilterGraph>" -> "FilterGraphObject"
      [] url = "<fileobj>" -> "fileobj"
      [] url = "<bytes>" -> "Buffer"
      [] url = "<FFConcat>" -> "FFConcat"
      [] OTHER -> "int"

\* utils.is_fileobj(url, readable=True)
is_fileobj(url) == UrlKind(url) = "fileobj"

\* utils.is_url(url, pipe_ok=False)
is_url(url) == UrlKind(url) = "str"

\* memoryview(url) succeeds
HasBuffer(url) == UrlKind(url) = "Buffer"

\* the url slot with the url kept although the data is piped in
UrlSlot_Keep(url, piped) == url

\* url = None where the data is piped in
UrlSlot(url, piped) == IF piped THEN None ELSE url

\* one turn of the loop of process_url_inputs over item = [url, form, opts]:
\* form bare (the url alone), pair ((url, opts), opts a dict or None) or
\* triple (a tuple of another length); st = [args, info, inopts_default, err],
\* inopts_default the caller's dict as it stands
process_one_url(st, item) ==
    IF st.err # None THEN st
    ELSE IF item.form = "triple"
    THEN [st EXCEPT !.err = "ValueError"]
    ELSE
    LET url == item.url
        shared == ~(item.form = "pair" /\ item.opts # NoOpts)
        opts0 == IF shared THEN st.inopts_default
                 ELSE Merge(st.inopts_default, item.opts[1])
        is_fg == UrlKind(url) = "FilterGraphObject"
        as_fg == is_fg \/ (Get(opts0, "f") = "lavfi" /\ UrlKind(url) = "str")
        opts == IF is_fg /\ "f" \notin DOMAIN opts0 THEN Put(opts0, "f", "lavfi") ELSE opts0
        piped == ~as_fg /\ (is_fileobj(url) \/ ~is_url(url))
        info == IF as_fg THEN [src_type |-> "filtergraph"]
                ELSE IF is_fileobj(url) THEN [src_type |-> "fileobj", fileobj |-> url]
                ELSE IF is_url(url) THEN [src_type |-> "url"]
                ELSE IF UrlKind(url) = "FFConcat"
                THEN [src_type |-> "buffer", buffer |-> "FFConcat.input"]
                ELSE [src_type |-> "buffer", buffer |-> url]
    IN  IF is_fg /\ "f" \in DOMAIN opts0 /\ Get(opts0, "f") # "lavfi"
        THEN [st EXCEPT !.err = "ValueError"]
        ELSE IF ~as_fg /\ ~is_fileobj(url) /\ ~is_url(url)
                /\ UrlKind(url) # "FFConcat" /\ ~HasBuffer(url)
        THEN [st EXCEPT !.err = "TypeError"]
        ELSE [st EXCEPT !.args = add_url(@, "input", UrlSlot(url, piped),
                                         Opts(opts), FALSE).args,
                        !.info = Append(@, info),
                        !.inopts_default = IF shared THEN opts ELSE @]

\* process_url_inputs(args, urls, inopts_default):
\* [args afterwards, info: the list returned, inopts_default: the caller's
\*  dict afterwards, err: the exception raised or None]
RECURSIVE ProcessUrls(_, _)
ProcessUrls(st, urls) ==
    IF urls = <<>> THEN st ELSE ProcessUrls(process_one_url(st, Head(urls)), Tail(urls))

process_url_inputs(a, urls, inopts_default) ==
    ProcessUrls([args |-> a, info |-> <<>>, inopts_default |-> inopts_default, err |-> None],
                urls)

Call_process_url_inputs ==
    /\ call.family = "urlin"
    /\ call.op = "init"
    /\ \E r \in {process_url_inputs(args, call.urls, call.inopts_default)} :
          /\ args' = r.args
          /\ ret' = [err |-> r.err, info |-> r.info]
          /\ call' = [call EXCEPT !.op = "process_url_inputs",
                                  !.inopts_after = r.inopts_default]
    /\ pre' = args
    /\ UNCHANGED probe

\* the items a caller lists
UrlItems ==
    [url : InputValues, form : {"bare"}, opts : {NoOpts}]
    \cup [url : {"video.mp4", "<FilterGraph>", "<bytes>"}, form : {"pair"},
          opts : {NoOpts, Opts([f |-> "mp4"]), Opts([r |-> "30"])}]
    \cup [url : {"color=c=pink [out0]"}, form : {"pair"}, opts : {Opts([f |-> "lavfi"])}]
    \cup [url : {"video.mp4"}, form : {"triple"}, opts : {NoOpts}]

\* the default input options a caller passes
DefaultInOpts == {EmptyDict, [f |-> "lavfi"], [r |-> "25"]}

InitUrlInputs ==
    /\ args = empty
    /\ probe = NoProbe
    /\ \E n \in 1..MaxUrlInputs : \E urls \in [1..n -> UrlItems] :
       \E inopts_default \in DefaultInOpts :
          call = [family |-> "urlin", op |-> "init", urls |-> urls,
                  inopts_default |-> inopts_default, inopts_after |-> inopts_default]
    /\ pre = args
    /\ ret = <<>>

NextUrlInputs == Call_process_url_inputs

SpecUrlInputs == InitUrlInputs /\ [][NextUrlInputs]_vars

\* the call returned
UrlInputsDone == call.family = "urlin" /\ call.op = "process_url_inputs" /\ ret.err = None

OwnOptions(item, inopts_default) ==
    LET merged == IF item.form = "pair" /\ item.opts # NoOpts
                  THEN Merge(inopts_default, item.opts[1])
                  ELSE inopts_default
    IN  IF UrlKind(item.url) = "FilterGraphObject" /\ "f" \notin DOMAIN merged
        THEN Put(merged, "f", "lavfi")
        ELSE merged

\* C28: process_url_inputs treats each input on its own: the caller's
\* inopts_default is as it was, and input i is registered with its own options
\* merged over the inopts_default the caller passed, and classified by them,
\* whatever inputs come before it
C28_InputsIndependent ==
    UrlInputsDone =>
        /\ call.inopts_after = call.inopts_default
        /\ \A i \in 1..Len(call.urls) :
              LET own == OwnOptions(call.urls[i], call.inopts_default)
              IN  /\ args.inputs[Len(pre.inputs) + i].opts = own
                  /\ UrlKind(call.urls[i].url) = "str" =>
                        ret.info[i].src_type = (IF Get(own, "f") = "lavfi"
                                                THEN "filtergraph" ELSE "url")


-----------------------------------------------------------------------------
(* auto_map keys, as the tests of the repository state them *)

\* C22: without a global filter_complex auto_map keys every audio/video stream
\* of every input as <file index>:<stream index>, the stream index being the
\* index of the stream in its file, each entry with dst_type pipe, user_map
\* None, the media type, input_file_id and input_stream_id
C22_AutoMapKeysFileAndIndex ==
    (call.op = "auto_map" /\ "filter_complex" \notin DOMAIN pre.global_options) =>
        /\ Len(ret) = Cardinality(MappableStreams)
        /\ \A fp \in MappableStreams :
              \E e \in 1..Len(ret) :
                 /\ ret[e].k = PyStr(ToString(fp[1] - 1) \o ":" \o ToString(fp[2] - 1))
                 /\ ret[e].v.dst_type = "pipe"
                 /\ ret[e].v.user_map = None
                 /\ ret[e].v.media_type = probe.streams[fp[1]][fp[2]]
                 /\ ret[e].v.input_file_id = fp[1] - 1
                 /\ ret[e].v.input_stream_id = fp[2] - 1


-----------------------------------------------------------------------------
(* analyze_fg_outputs and the links between the listed filtergraphs *)

\* an input pad of a listed filtergraph other than number g carries the label
ConsumedByAnother(fcs, g, label) ==
    \E h \in 1..Len(fcs) : h # g /\ \E n \in 1..Len(iter_input_labels(fcs[h])) :
        iter_input_labels(fcs[h])[n] = label

\* the returned map has a key for the label
InOutputMap(m, label) == \E e \in 1..Len(m) : m[e].k = "[" \o label \o "]"

\* no output pad that feeds another listed filtergraph is in the returned map
InternalLinksLeftOut ==
    (call.op = "analyze_fg_outputs" /\ "filter_complex" \in DOMAIN pre.global_options) =>
        LET fcs1 == as_filtergraph_list(args.global_options)
        IN  \A g \in 1..Len(fcs1) : \A k \in 1..Len(fcs1[g].outpads) :
               ConsumedByAnother(fcs1, g, get_label(fcs1[g], k))
               => ~InOutputMap(ret, get_label(fcs1[g], k))

\* every output label that feeds no other listed filtergraph is in the map
FreeLabelsMapped ==
    (call.op = "analyze_fg_outputs" /\ "filter_complex" \in DOMAIN pre.global_options) =>
        LET fcs1 == as_filtergraph_list(args.global_options)
        IN  \A g \in 1..Len(fcs1) : \A k \in 1..Len(fcs1[g].outpads) :
               ~ConsumedByAnother(fcs1, g, get_label(fcs1[g], k))
               => InOutputMap(ret, get_label(fcs1[g], k))

\* C23: analyze_fg_outputs leaves the internal connections out: an output pad
\* whose label is an input label of another listed filtergraph is not in the
\* returned map, and every output label no other filtergraph consumes is
C23_InternalLinksExcluded == InternalLinksLeftOut /\ FreeLabelsMapped


-----------------------------------------------------------------------------
(* resolve_raw_output_streams on the probing path *)

\* the call returned from the probing path
ResolvedByProbe ==
    /\ call.family = "resolve"
    /\ call.op = "resolve_raw_output_streams"
    /\ ret.err = None
    /\ ret.path = "resolved"

\* specifier number k of the call as parsed
ParsedMap(k) ==
    parse_map_option(call.streams[k], IF Len(pre.inputs) = 1 THEN "0" ELSE None)

\* the streams specifier number k of the call matches (none for a link label)
MatchedStreams(k) ==
    IF ParsedMap(k).linklabel # None THEN <<>>
    ELSE retrieve_input_stream_ids(FileIndex(ParsedMap(k).input_file_id) + 1,
                                   ParsedMap(k).stream_specifier)

RECURSIVE TotalMatched(_)
TotalMatched(k) ==
    IF k = 0 THEN 0
    ELSE TotalMatched(k - 1)
         + (IF ParsedMap(k).linklabel # None THEN 1 ELSE Len(MatchedStreams(k)))

\* the entry of the returned map under key, or none
HasEntry(key, user_map, media_type, file_id, stream_id) ==
    \E e \in 1..Len(ret.map) :
        /\ ret.map[e].k = PyStr(key)
        /\ ret.map[e].v = [dst_type |-> "pipe", user_map |-> user_map,
                           media_type |-> media_type, input_file_id |-> file_id,
                           input_stream_id |-> stream_id]

\* every specifier has its entries in the returned map
EntriesPerSpecifier ==
    ResolvedByProbe =>
        \A k \in 1..Len(call.streams) :
            LET spec == call.streams[k]
                matched == MatchedStreams(k)
                file == ParsedMap(k).input_file_id
            IN  IF ParsedMap(k).linklabel # None
                THEN \E media_type \in MediaType : HasEntry(spec, spec, media_type, None, None)
                ELSE IF Len(matched) = 1
                THEN HasEntry(spec, spec, matched[1][2], file, ToString(matched[1][1]))
                ELSE \A n \in 1..Len(matched) :
                        HasEntry(file \o ":" \o ToString(matched[n][1]), spec,
                                 matched[n][2], file, ToString(matched[n][1]))

\* as many entries as matched streams and link labels
EntryCount == ResolvedByProbe => Len(ret.map) = TotalMatched(Len(call.streams))

\* C24: on the probing path of resolve_raw_output_streams a specifier that
\* matches one stream gives one entry keyed by the specifier, a specifier
\* that matches several gives one entry per stream keyed fileIndex:streamIndex
\* with user_map the specifier, a link label gives one entry keyed by the
\* label with input_file_id and input_stream_id None, and the entries are as
\* many as the matched streams and link labels together
C24_ProbingPathEntries == EntriesPerSpecifier /\ EntryCount


\* the keys specifier number k of the call is entered under
KeysOf(k) ==
    IF ParsedMap(k).linklabel # None \/ Len(MatchedStreams(k)) = 1
    THEN {call.streams[k]}
    ELSE {ParsedMap(k).input_file_id \o ":" \o ToString(MatchedStreams(k)[n][1]) :
            n \in 1..Len(MatchedStreams(k))}

\* the last specifier of the call entered under key
LastUnder(key) ==
    CHOOSE k \in 1..Len(call.streams) :
        /\ key \in KeysOf(k)
        /\ \A j \in 1..Len(call.streams) : key \in KeysOf(j) => j <= k

\* C24 as the code has it: the entries are keyed as claimed, one per key: a
\* stream or label that two specifiers give the same key is entered once,
\* with user_map the later of the two specifiers, so the entries are as many
\* as the distinct keys
C24_OneEntryPerKey ==
    ResolvedByProbe =>
        /\ Len(ret.map) = Cardinality(UNION {KeysOf(k) : k \in 1..Len(call.streams)})
        /\ \A k \in 1..Len(call.streams) :
              LET spec == call.streams[k]
                  matched == MatchedStreams(k)
                  file == ParsedMap(k).input_file_id
              IN  IF ParsedMap(k).linklabel # None
                  THEN \E media_type \in MediaType :
                          HasEntry(spec, spec, media_type, None, None)
                  ELSE IF Len(matched) = 1
                  THEN HasEntry(spec, call.streams[LastUnder(spec)],
                                matched[1][2], file, ToString(matched[1][1]))
                  ELSE \A n \in 1..Len(matched) :
                          LET key == file \o ":" \o ToString(matched[n][1])
                          IN  HasEntry(key, call.streams[LastUnder(key)],
                                       matched[n][2], file, ToString(matched[n][1]))

\* a specifier that matches two streams is followed by one that gives one of
\* them the same key
C24_Witness ==
    /\ ResolvedByProbe
    /\ Len(call.streams) = 2
    /\ Len(MatchedStreams(1)) = 2
    /\ Len(MatchedStreams(2)) = 1
    /\ KeysOf(1) \cap KeysOf(2) # {}
    /\ Len(ret.map) = 2

\* a link label and a specifier that matches several streams are resolved
LabelAndSeveralResolved ==
    /\ ResolvedByProbe
    /\ \E k, j \in 1..Len(call.streams) :
          /\ ParsedMap(k).linklabel # None
          /\ Len(MatchedStreams(j)) > 1
    /\ Len(ret.map) = TotalMatched(Len(call.streams))


-----------------------------------------------------------------------------
(* config_input_fg *)

\* fgb.Graph(expr): the chains of the expression, each a sequence of filter names
Graph(expr) ==
    CASE expr = "color" -> <<<<"color">>>>
      [] expr = "anullsrc" -> <<<<"anullsrc">>>>
      [] expr = "scale" -> <<<<"scale">>>>
      [] expr = "concat" -> <<<<"concat">>>>
      [] expr = "color,scale" -> <<<<"color", "scale">>>>
      [] expr = "color;anullsrc" -> <<<<"color">>, <<"anullsrc">>>>

InputExprs == {"color", "anullsrc", "scale", "concat", "color,scale", "color;anullsrc"}

\* f.info of a filter: the number of input pads (None: it depends on the
\* options) and the options, each [name, aliases, default]
FilterInfo(name) ==
    CASE name = "color" ->
            [inputs |-> <<0>>,
             options |-> <<[name |-> "color", aliases |-> <<"c">>, default |-> "black"],
                           [name |-> "rate", aliases |-> <<"r">>, default |-> "25"],
                           [name |-> "duration", aliases |-> <<"d">>, default |-> "-1"]>>]
      [] name = "anullsrc" ->
            [inputs |-> <<0>>,
             options |-> <<[name |-> "sample_rate", aliases |-> <<"r">>, default |-> "44100"]>>]
      [] name = "scale" ->
            [inputs |-> <<1>>,
             options |-> <<[name |-> "width", aliases |-> <<"w">>, default |-> "0"]>>]
      [] name = "concat" ->
            [inputs |-> <<>>,
             options |-> <<[name |-> "n", aliases |-> <<>>, default |-> "2"]>>]

\* the option names alone, the aliases left out
FilterOptNames_NoAliases(info) == {info.options[i].name : i \in 1..Len(info.options)}

\* opts: the names and the aliases of the options of the filter
FilterOptNames(info) ==
    {info.options[i].name : i \in 1..Len(info.options)}
    \cup UNION {{info.options[i].aliases[j] : j \in 1..Len(info.options[i].aliases)} :
                  i \in 1..Len(info.options)}

\* the first option named duration, as a sequence of none or one
DurationOption(info) ==
    SelectSeq(info.options, LAMBDA o : o.name = "duration")

\* the first of the aliases that fargs has a value for, else None
RECURSIVE FirstAlias(_, _)
FirstAlias(named, aliases) ==
    IF aliases = <<>> THEN None
    ELSE IF Get(named, Head(aliases)) # None THEN Get(named, Head(aliases))
    ELSE FirstAlias(named, Tail(aliases))

\* utils.parse_time_duration(val) of a number of seconds in decimal
parse_time_duration(val) == CHOOSE n \in -1..10 : ToString(n) = val

\* config_input_fg(expr, args, kwargs): [err, filter: the expression or the
\* filter with [pos, named] applied, dopt: <<seconds>> or <<>> for None, oargs]
config_input_fg(expr, posargs, kwargs) ==
    LET fg == Graph(expr)
    IN  IF Len(fg) # 1 \/ Len(fg[1]) # 1
        THEN IF Len(posargs) > 0
             THEN [err |-> "FFmpegioError", filter |-> None, dopt |-> <<>>, oargs |-> EmptyDict]
             ELSE [err |-> None, filter |-> expr, dopt |-> <<>>, oargs |-> kwargs]
        ELSE
        LET f == fg[1][1]
            info == FilterInfo(f)
            opts == FilterOptNames(info)
            named == [k \in DOMAIN kwargs \cap opts |-> kwargs[k]]
            oargs == [k \in DOMAIN kwargs \ opts |-> kwargs[k]]
            dur == DurationOption(info)
            val == IF dur = <<>> THEN None
                   ELSE IF Get(named, dur[1].name) # None THEN Get(named, dur[1].name)
                   ELSE IF FirstAlias(named, dur[1].aliases) # None
                   THEN FirstAlias(named, dur[1].aliases)
                   ELSE dur[1].default
        IN  IF info.inputs = <<>> \/ info.inputs[1] > 0
            THEN [err |-> "FFmpegioError", filter |-> None, dopt |-> <<>>, oargs |-> EmptyDict]
            ELSE [err |-> None,
                  filter |-> [name |-> f, pos |-> posargs, named |-> named],
                  dopt |-> IF dur = <<>> THEN <<>>
                           ELSE IF parse_time_duration(val) <= 0 THEN <<>>
                           ELSE <<parse_time_duration(val)>>,
                  oargs |-> oargs]

Call_config_input_fg ==
    /\ call.family = "infg"
    /\ call.op = "init"
    /\ \E r \in {config_input_fg(call.expr, call.posargs, call.kwargs)} :
          ret' = r
    /\ call' = [call EXCEPT !.op = "config_input_fg"]
    /\ pre' = args
    /\ UNCHANGED <<args, probe>>

\* the keyword arguments a caller passes: options of a filter by name or by
\* alias, and input options that are no option of any
KeywordPool == [c |-> "red", duration |-> "5", d |-> "0", r |-> "30", t |-> "10", pix_fmt |-> "rgb24"]

InitInputFg ==
    /\ args = empty
    /\ probe = NoProbe
    /\ \E expr \in InputExprs : \E posargs \in {<<>>, <<"red">>} :
       \E keys \in SUBSET DOMAIN KeywordPool :
          call = [family |-> "infg", op |-> "init", expr |-> expr, posargs |-> posargs,
                  kwargs |-> [k \in keys |-> KeywordPool[k]]]
    /\ pre = args
    /\ ret = <<>>

NextInputFg == Call_config_input_fg

SpecInputFg == InitInputFg /\ [][NextInputFg]_vars

\* the expression of the call is one filter, and what the catalogue says of it
OneFilter == Len(Graph(call.expr)) = 1 /\ Len(Graph(call.expr)[1]) = 1
TheFilter == FilterInfo(Graph(call.expr)[1][1])
IsSource == OneFilter /\ TheFilter.inputs = <<0>>

\* every keyword goes to the filter when it names an option, else to the leftovers
KeywordsRouted ==
    /\ ret.err = None
    /\ DOMAIN ret.filter.named \cap DOMAIN ret.oargs = {}
    /\ \A k \in DOMAIN call.kwargs :
          IF \/ \E i \in 1..Len(TheFilter.options) : TheFilter.options[i].name = k
             \/ \E i \in 1..Len(TheFilter.options) :
                   \E j \in 1..Len(TheFilter.options[i].aliases) :
                      TheFilter.options[i].aliases[j] = k
          THEN Get(ret.filter.named, k) = call.kwargs[k] /\ k \notin DOMAIN ret.oargs
          ELSE Get(ret.oargs, k) = call.kwargs[k] /\ k \notin DOMAIN ret.filter.named

\* C25: config_input_fg routes the arguments: for one source filter every
\* keyword that is an option name or alias of the filter is applied to it and
\* every other keyword is returned as a leftover; for a multi-filter expression
\* or a filter that is no source, positional arguments raise an error and a
\* call without them returns without error, all keywords passed through
C25_ArgumentRouting ==
    (call.family = "infg" /\ call.op = "config_input_fg") =>
        IF IsSource THEN KeywordsRouted
        ELSE IF Len(call.posargs) > 0 THEN ret.err # None
        ELSE ret.err = None /\ ret.oargs = call.kwargs

\* C25 as the code has it: a multi-filter expression raises with positional
\* arguments and passes everything through without them; one filter that is
\* no source raises whether positional arguments are given or not
C25_NonSourceAlwaysRaises ==
    (call.family = "infg" /\ call.op = "config_input_fg") =>
        IF IsSource THEN KeywordsRouted
        ELSE IF OneFilter THEN ret.err = "FFmpegioError"
        ELSE IF Len(call.posargs) > 0 THEN ret.err = "FFmpegioError"
        ELSE ret.err = None /\ ret.oargs = call.kwargs /\ ret.filter = call.expr

\* a source filter took a keyword by name and one by alias and left another
C25_Witness ==
    /\ call.family = "infg"
    /\ call.op = "config_input_fg"
    /\ IsSource
    /\ ret.err = None
    /\ "duration" \in DOMAIN ret.filter.named
    /\ "c" \in DOMAIN ret.filter.named
    /\ "pix_fmt" \in DOMAIN ret.oargs
    /\ ret.dopt = <<5>>


-----------------------------------------------------------------------------
(* process_raw_outputs and init_media_read *)

\* utils.pop_global_options(options): the global options among options, and the rest
GlobalOptionNames == {"filter_complex", "loglevel", "y"}
pop_global_options(options) ==
    [global |-> [k \in DOMAIN options \cap GlobalOptionNames |-> options[k]],
     rest |-> [k \in DOMAIN options \ GlobalOptionNames |-> options[k]]]

\* the map argument of a read: form none (None), list (a sequence of
\* specifiers) or dict (specifier -> options or None, opts[i] = <<>> for None)
NoMap == [form |-> "none", specs |-> <<>>, opts |-> <<>>]

\* streams[info["user_map"]] of the dict form
UserMapOpts(streams, user_map) ==
    streams.opts[CHOOSE i \in 1..Len(streams.specs) : streams.specs[i] = user_map]

\* the first loop of process_raw_outputs from entry k on: one output per
\* resolved stream, url None, the options with map set to the key
\* the value of an expression evaluated once
TheOne(S) == CHOOSE y \in S : TRUE

RECURSIVE AddOutputs(_, _, _, _, _)
AddOutputs(st, stream_info, streams, options, k) ==
    IF k > Len(stream_info) \/ st.err # None THEN st
    ELSE LET spec == stream_info[k].k.v
             get_opts == streams.form = "dict"
         IN  IF get_opts /\ UserMapOpts(streams, stream_info[k].v.user_map) = NoOpts
             THEN [st EXCEPT !.err = "TypeError"]
             ELSE TheOne({AddOutputs(nst, stream_info, streams, options, k + 1) :
                    nst \in {[st EXCEPT !.args = add_url(@, "output", None,
                        Opts(Put(IF get_opts
                                 THEN Merge(options,
                                            UserMapOpts(streams, stream_info[k].v.user_map)[1])
                                 ELSE options,
                                 "map", spec)), FALSE).args]}})

\* the finalizer picked for a resolved stream always the video one
FinalizerFor_Video(media_type) == "video"

\* finalize_audio_read_opts if info["media_type"] == "audio" else finalize_video_read_opts
FinalizerFor(media_type) == IF media_type = "audio" THEN "audio" ELSE "video"

\* the exception the finalizer named raises on output ofile before it reads
\* the input, or None: the map names no input file, or a file that is not listed
FinalizerFails(a, ofile, finalizer) ==
    LET outopts == a.outputs[ofile].opts
        m == parse_map_option(outopts["map"], None)
        reads == \/ finalizer = "video"
                 \/ ~(\A o \in {"ar", "sample_fmt", "ac"} : Truthy(Get(outopts, o)))
    IN  IF m.linklabel # None \/ ~reads THEN None
        ELSE IF m.input_file_id = None THEN "KeyError"
        ELSE IF FileIndex(m.input_file_id) >= Len(a.inputs) THEN "IndexError"
        ELSE None

\* (finalizer)(args, i, input_info): [args afterwards, err, media_info]
FinalizeOutput(a, ofile, finalizer) ==
    TheOne({IF fails # None
            THEN [args |-> a, err |-> fails, media_info |-> <<>>]
            ELSE IF finalizer = "audio"
            THEN TheOne({[args |-> r.args, err |-> r.err,
                          media_info |-> <<"audio", r.dtype, r.ac, r.ar>>] :
                            r \in {finalize_audio_read_opts(a, ofile)}})
            ELSE TheOne({[args |-> r.args, err |-> None,
                          media_info |-> <<"video", a.outputs[ofile].opts["map"], r.s, r.r>>] :
                            r \in {finalize_video_read_opts(a, ofile)}}) :
              fails \in {FinalizerFails(a, ofile, finalizer)}})

\* the second loop of process_raw_outputs from entry k on
RECURSIVE FinalizeEach(_, _, _)
FinalizeEach(st, stream_info, k) ==
    IF k > Len(stream_info) \/ st.err # None THEN st
    ELSE TheOne({FinalizeEach(
                   [args |-> r.args, err |-> r.err,
                    info |-> Append(st.info, [key |-> stream_info[k].k.v,
                                              media_type |-> stream_info[k].v.media_type,
                                              user_map |-> stream_info[k].v.user_map,
                                              media_info |-> r.media_info])],
                   stream_info, k + 1) :
                 r \in {FinalizeOutput(st.args, k, FinalizerFor(stream_info[k].v.media_type))}})

\* process_raw_outputs(args, input_info, streams, options):
\* [args afterwards, err, info: the list returned, staged: args as the
\*  outputs were added and before they are finalized]
process_raw_outputs(a, streams, options) ==
    LET auto == streams.form = "none" \/ Len(streams.specs) = 0
        from_auto_map == TheOne({[args |-> am.args, err |-> None, map |-> am.map] :
                                   am \in {auto_map(a)}})
    IN  TheOne({
          TheOne({
            TheOne({[args |-> done.args, err |-> done.err, info |-> done.info,
                     staged |-> added.args] :
                      done \in {FinalizeEach([args |-> added.args, err |-> added.err,
                                              info |-> <<>>], rs.map, 1)}}) :
              added \in {AddOutputs([args |-> rs.args, err |-> rs.err], rs.map,
                                    streams, options, 1)}}) :
            rs \in {IF auto THEN from_auto_map
                    ELSE resolve_raw_output_streams(a, streams.specs)}})

\* init_media_read(urls, map, options):
\* [err, args, input_info, output_info, staged]
init_media_read(urls, map, options0) ==
    LET failed(e) == [err |-> e, args |-> empty, input_info |-> <<>>,
                      output_info |-> <<>>, staged |-> empty]
        popped == pop_extra_options(options0, "_in")
        inopts_default == popped.extra
        gpopped == pop_global_options(popped.rest)
        options == gpopped.rest
        a0 == [empty EXCEPT !.global_options = Put(gpopped.global, "y", None)]
    IN  IF Len(urls) = 0 THEN failed("ValueError")
        ELSE IF "n" \in DOMAIN options0 THEN failed("ValueError")
        ELSE TheOne({
               IF ins.err # None THEN failed(ins.err)
               ELSE TheOne({
                      IF outs.err # None THEN failed(outs.err)
                      ELSE [err |-> None, args |-> outs.args, input_info |-> ins.info,
                            output_info |-> outs.info, staged |-> outs.staged] :
                        outs \in {process_raw_outputs(ins.args, map, options)}}) :
                 ins \in {process_url_inputs(a0, urls, inopts_default)}})

Call_init_media_read ==
    /\ call.family = "read"
    /\ call.op = "init"
    /\ \E r \in {init_media_read(call.urls, call.map, call.options)} :
          /\ args' = r.args
          /\ ret' = [err |-> r.err, input_info |-> r.input_info,
                     output_info |-> r.output_info, staged |-> r.staged]
    /\ call' = [call EXCEPT !.op = "init_media_read"]
    /\ pre' = args
    /\ UNCHANGED probe

\* the map arguments of the reads
ReadSpecs == {"v", "a", "0:v:0", "1:a:0", "0", "0:1", "[out0]"}
ReadMaps ==
    {NoMap}
    \cup {[form |-> "list", specs |-> specs, opts |-> <<>>] :
            specs \in UNION {[1..n -> ReadSpecs] : n \in 1..MaxMaps}}
    \cup {[form |-> "dict", specs |-> <<"0:v:0">>, opts |-> <<Opts([pix_fmt |-> "rgba"])>>],
          [form |-> "dict", specs |-> <<"a", "0:v:0">>,
           opts |-> <<Opts([ar |-> "8000"]), Opts(EmptyDict)>>],
          [form |-> "dict", specs |-> <<"v">>, opts |-> <<NoOpts>>]}

\* the options of the reads
ReadOptions ==
    {EmptyDict, [pix_fmt |-> "rgba"], [n |-> None],
     [sample_fmt |-> "s16", r_in |-> "25"],
     [filter_complex |-> <<SplitGraph>>]}

\* what the probe finds in the files read: two streams in the first file
ReadProbes(n) ==
    {[streams |-> [f \in 1..n |-> IF f = 1 THEN first ELSE <<"audio">>],
      fails |-> [f \in 1..n |-> f = 2 /\ fails2],
      video |-> [f \in 1..n |-> <<"30", "rgb24", "640x480">>],
      video_filtered |-> <<"30", "rgb24", "640x480">>,
      audio |-> [f \in 1..n |-> <<"48000", "s16p", "2">>],
      audio_filtered |-> <<"22050", "fltp", "1">>] :
        first \in {<<"video", "audio">>, <<"video", "video">>, <<"audio">>},
        fails2 \in BOOLEAN}

InitRead ==
    /\ args = empty
    /\ \E n \in 0..MaxInputs :
       \E urls \in [1..n -> [url : {"video.mp4", "<bytes>"}, form : {"bare"}, opts : {NoOpts}]] :
       \E map \in ReadMaps : \E options \in ReadOptions :
          /\ probe \in ReadProbes(n)
          /\ call = [family |-> "read", op |-> "init", urls |-> urls, map |-> map,
                     options |-> options]
    /\ pre = args
    /\ ret = <<>>

NextRead == Call_init_media_read

SpecRead == InitRead /\ [][NextRead]_vars


\* init_media_read returned
ReadDone == call.family = "read" /\ call.op = "init_media_read" /\ ret.err = None

\* C26: init_media_read keeps its three results aligned: the arguments have
\* one input per url, matching the source-info list index by index, and one
\* output per stream-info record in the same order; output k has url None and
\* map equal to the key of record k, and record k carries the media_info of
\* finalizing output k with the finalizer of its media type, the audio
\* finalizer for audio and the video finalizer for video
C26_ResultsAligned ==
    ReadDone =>
        /\ Len(args.inputs) = Len(call.urls)
        /\ Len(ret.input_info) = Len(call.urls)
        /\ \A i \in 1..Len(call.urls) :
              /\ (args.inputs[i].url = None) <=> (ret.input_info[i].src_type = "buffer")
              /\ args.inputs[i].url # None => args.inputs[i].url = call.urls[i].url
        /\ Len(args.outputs) = Len(ret.output_info)
        /\ \A k \in 1..Len(ret.output_info) :
              LET info == ret.output_info[k]
              IN  /\ args.outputs[k].url = None
                  /\ Get(args.outputs[k].opts, "map") = info.key
                  /\ Get(ret.staged.outputs[k].opts, "map") = info.key
                  /\ info.media_type \in MediaType =>
                        /\ info.media_info[1] = info.media_type
                        /\ info.media_info
                           = FinalizeOutput(ret.staged, k, info.media_type).media_info
                        /\ args.outputs[k]
                           = FinalizeOutput(ret.staged, k, info.media_type).args.outputs[k]

\* two inputs were read into a video output and an audio output, each
\* finalized by the finalizer of its type
C26_Witness ==
    /\ ReadDone
    /\ Len(args.inputs) = 2
    /\ Len(ret.output_info) = 2
    /\ ret.output_info[1].media_type = "video"
    /\ ret.output_info[2].media_type = "audio"
    /\ args.outputs[1].opts["f"] = "rawvideo"
    /\ "c:a" \in DOMAIN args.outputs[2].opts
    /\ args.outputs[2].opts["map"] = ret.output_info[2].key


-----------------------------------------------------------------------------
(* finalize_avi_read_opts *)

\* utils.find_stream_options(options, name): the keys that are the option
\* name, plain or with a stream specifier after it
find_stream_options(options, name) ==
    {k \in DOMAIN options : k = name \/ StartsWith(k, name \o ":")}

\* the grayscale formats without alpha the check counts
GrayFmts == {"gray16le", "grayf32le"}

\* the grayscale formats with alpha taken to be ya8 alone
GrayAlphaFmts_Ya8Only == {"ya8"}

\* the grayscale formats with alpha the check counts
GrayAlphaFmts == {"ya8", "ya16le"}

\* k[10:] of a sample_fmt key
AfterSampleFmt(k) == SubSeq(k, 11, Len(k))

\* the loop of line 768 over the keys left in todo: the codec of each sample
\* format option is set, None when get_audio_codec raises on one of them
RECURSIVE SetAudioCodecs(_, _)
SetAudioCodecs(options, todo) ==
    IF todo = {} THEN [err |-> None, options |-> options]
    ELSE LET k == CHOOSE x \in todo : TRUE
         IN  IF get_audio_codec(options[k]) = None
             THEN [err |-> "ValueError", options |-> options]
             ELSE LET rest == SetAudioCodecs(options, todo \ {k})
                  IN  [err |-> rest.err,
                       options |-> Put(rest.options, "c:a" \o AfterSampleFmt(k),
                                       get_audio_codec(options[k])[1])]

\* finalize_avi_read_opts(args): [args afterwards, err, use_ya: the flag returned]
finalize_avi_read_opts(a) ==
    LET options == a.outputs[1].opts
        keys == find_stream_options(options, "pix_fmt")
        gray16le == Cardinality({k \in keys : options[k] \in GrayFmts})
        ya8 == Cardinality({k \in keys : options[k] \in GrayAlphaFmts})
        o1 == IF "pix_fmt" \notin DOMAIN options THEN Put(options, "pix_fmt", "rgb24")
              ELSE options
        o2 == IF "sample_fmt" \notin DOMAIN o1 THEN Put(o1, "sample_fmt", "s16") ELSE o1
        o3 == Put(Put(o2, "f", "avi"), "c:v", "rawvideo")
        codecs == SetAudioCodecs(o3, find_stream_options(o3, "sample_fmt"))
    IN  IF gray16le > 0 /\ ya8 > 0
        THEN [args |-> a, err |-> "ValueError", use_ya |-> FALSE]
        ELSE [args |-> [a EXCEPT !.outputs[1].opts = codecs.options],
              err |-> codecs.err,
              use_ya |-> ya8 > 0]

Call_finalize_avi_read_opts ==
    /\ call.family = "avi"
    /\ call.op = "init"
    /\ \E r \in {finalize_avi_read_opts(args)} :
          /\ args' = r.args
          /\ ret' = [err |-> r.err, use_ya |-> r.use_ya]
    /\ call' = [call EXCEPT !.op = "finalize_avi_read_opts"]
    /\ pre' = args
    /\ UNCHANGED probe

\* the pixel and sample formats a caller asks for ("absent": the option is not given)
AviPixFmts == {"absent", "rgb24", "gray16le", "grayf32le", "ya8", "ya16le"}
AviSampleFmts == {"absent", "s16", "flt", "xyz"}

InitAvi ==
    /\ \E pf \in AviPixFmts, pfv \in AviPixFmts, sf \in AviSampleFmts,
          sfa \in {"absent", "flt"}, r \in {"absent", "25"} :
          LET given == [k \in {"pix_fmt", "pix_fmt:v:1", "sample_fmt", "sample_fmt:a:1", "r"} |->
                           CASE k = "pix_fmt" -> pf
                             [] k = "pix_fmt:v:1" -> pfv
                             [] k = "sample_fmt" -> sf
                             [] k = "sample_fmt:a:1" -> sfa
                             [] OTHER -> r]
          IN  args = [inputs |-> <<[url |-> "video.mp4", opts |-> EmptyDict]>>,
                      outputs |-> <<[url |-> None,
                                     opts |-> [k \in {x \in DOMAIN given : given[x] # "absent"}
                                                 |-> given[k]]]>>,
                      global_options |-> EmptyDict]
    /\ probe = NoProbe
    /\ call = [family |-> "avi", op |-> "init"]
    /\ pre = args
    /\ ret = <<>>

NextAvi == Call_finalize_avi_read_opts

SpecAvi == InitAvi /\ [][NextAvi]_vars

\* the pix_fmt options of the first output before the call, plain or qualified
PixFmtsAsked ==
    {pre.outputs[1].opts[k] : k \in {"pix_fmt", "pix_fmt:v:1"} \cap DOMAIN pre.outputs[1].opts}

\* the sample formats of the first output before the call are known ones
SampleFmtsKnown ==
    \A k \in {"sample_fmt", "sample_fmt:a:1"} \cap DOMAIN pre.outputs[1].opts :
        pre.outputs[1].opts[k] \in {"s16", "flt"}

-----------------------------------------------------------------------------
(* init_media_write and the named pipes it creates *)

\* the elements of a sequence
Elements(seq) == {seq[i] : i \in 1..Len(seq)}

\* C29: init_media_write never strands a pipe: when it raises, every named
\* pipe it has created by then is closed or handed to the caller
C29_NoPipeStranded ==
    (call.family = "write" /\ call.op = "init_media_write" /\ ret.err # None) =>
        Elements(ret.pipes) \subseteq Elements(ret.returned) \cup Elements(ret.closed)


-----------------------------------------------------------------------------
(* path.py: the cache of the ffmpeg and ffprobe executable paths *)

\* the number of calls made on the path module in one behaviour
MaxFindCalls == 2

\* the module's globals as they are at import
PathGlobals0 == [FFMPEG_BIN |-> None, FFPROBE_BIN |-> None, FFMPEG_VER |-> [kind |-> "None", text |-> <<>>]]

\* found(): both binaries are located
found(g) == Truthy(g.FFMPEG_BIN) /\ Truthy(g.FFPROBE_BIN)

\* get_ffmpeg() without its check of the path
get_ffmpeg_NoCheck(g, probe_flag) == [err |-> None, path |-> IF probe_flag THEN g.FFPROBE_BIN ELSE g.FFMPEG_BIN]

\* get_ffmpeg(probe): the cached path, an Exception when it is not set
get_ffmpeg(g, probe_flag) == LET path == IF probe_flag THEN g.FFPROBE_BIN ELSE g.FFMPEG_BIN IN IF ~Truthy(path) THEN [err |-> "Exception", path |-> None] ELSE [err |-> None, path |-> path]

\* shutil.which and os.path.isdir on the machine env
which(env, path) == path \in env.execs
isdir(env, path) == path \in env.dirs

\* the extension of executables: ".exe" on Windows only
ExeExt(env) == IF env.os_name = "nt" THEN ".exe" ELSE ""

\* the characters the pattern [.\d] accepts
VersionChars == {"0", "1", "2", "3", "4", "5", "6", "7", "8", "9", "."}

\* the longest leading run of version characters of the text that follows
\* "ffmpeg version " (the group of the regular expression)
RECURSIVE MatchedGroup(_)
MatchedGroup(text) ==
    IF text = <<>> \/ Head(text) \notin VersionChars THEN <<>>
    ELSE <<Head(text)>> \o MatchedGroup(Tail(text))

\* packaging's Version accepts a release of dot-separated numbers
ValidVersion(text) ==
    /\ text # <<>>
    /\ text[1] # "."
    /\ text[Len(text)] # "."
    /\ \A i \in 1..(Len(text) - 1) : ~(text[i] = "." /\ text[i + 1] = ".")

\* the try block of find(): run `ffmpeg -version` and read the version;
\* anything that goes wrong in it becomes a RuntimeError
query_version(env, ffmpeg_bin) ==
    LET out == env.out[ffmpeg_bin]
        m == MatchedGroup(out.stdout)
    IN  IF out.returncode # 0 THEN [err |-> "RuntimeError", ver |-> <<>>]
        ELSE IF m = <<>> THEN [err |-> None, ver |-> [kind |-> "str", text |-> <<"nightly">>]]
        ELSE IF ~ValidVersion(m) THEN [err |-> "RuntimeError", ver |-> <<>>]
        ELSE [err |-> None, ver |-> [kind |-> "Version", text |-> m]]

\* find(ffmpeg_path, ffprobe_path): the globals after the call and the error raised
find(g, env, ffmpeg_path0, ffprobe_path0) ==
    LET has_ffmpeg == ffmpeg_path0 # None
        has_ffprobe == ffprobe_path0 # None
        has_ffdir == has_ffmpeg /\ isdir(env, ffmpeg_path0)
        ffmpeg_path == IF has_ffdir THEN ffmpeg_path0 \o "/ffmpeg" \o ExeExt(env) ELSE ffmpeg_path0
        ffprobe_path == IF has_ffdir THEN ffmpeg_path0 \o "/ffprobe" \o ExeExt(env) ELSE ffprobe_path0
        on_path == which(env, "ffmpeg") /\ which(env, "ffprobe")
        located ==
            IF has_ffmpeg
            THEN IF ~which(env, ffmpeg_path) \/ ~which(env, ffprobe_path)
                 THEN [err |-> "ValueError", bins |-> <<>>]
                 ELSE [err |-> None, bins |-> <<ffmpeg_path, ffprobe_path>>]
            ELSE IF on_path THEN [err |-> None, bins |-> <<"ffmpeg", "ffprobe">>]
            ELSE IF env.finder = <<>> THEN [err |-> "RuntimeError", bins |-> <<>>]
            ELSE [err |-> None, bins |-> env.finder]
    IN  IF (has_ffmpeg # has_ffprobe) /\ (~has_ffdir \/ has_ffprobe)
        THEN [g |-> g, err |-> "ValueError"]
        ELSE IF located.err # None THEN [g |-> g, err |-> located.err]
        ELSE LET v == query_version(env, located.bins[1])
             IN  IF v.err # None THEN [g |-> g, err |-> v.err]
                 ELSE [g |-> [FFMPEG_BIN |-> located.bins[1],
                              FFPROBE_BIN |-> located.bins[2],
                              FFMPEG_VER |-> v.ver],
                       err |-> None]

Call_find ==
    /\ call.family = "path"
    /\ call.n < MaxFindCalls
    /\ \E ffmpeg_path \in {None, "/opt/ff", "/opt/ff/ffmpeg", "/usr/bin/ffmpeg"},
          ffprobe_path \in {None, "/opt/ff/ffprobe"} :
          \E r \in {find(args, probe, ffmpeg_path, ffprobe_path)} :
             /\ args' = r.g
             /\ ret' = [err |-> r.err, value |-> None]
             /\ call' = [family |-> "path", op |-> "find", n |-> call.n + 1,
                         ffmpeg_path |-> ffmpeg_path, ffprobe_path |-> ffprobe_path]
    /\ pre' = args
    /\ UNCHANGED probe

Call_found ==
    /\ call.family = "path"
    /\ call.n < MaxFindCalls
    /\ ret' = [err |-> None, value |-> IF found(args) THEN "True" ELSE "False"]
    /\ call' = [family |-> "path", op |-> "found", n |-> call.n + 1,
                ffmpeg_path |-> None, ffprobe_path |-> None]
    /\ pre' = args
    /\ UNCHANGED <<args, probe>>

Call_get_ffmpeg ==
    /\ call.family = "path"
    /\ call.n < MaxFindCalls
    /\ \E probe_flag \in BOOLEAN :
          \E r \in {get_ffmpeg(args, probe_flag)} :
             /\ ret' = [err |-> r.err, value |-> r.path]
             /\ call' = [family |-> "path",
                         op |-> IF probe_flag THEN "get_ffprobe" ELSE "get_ffmpeg",
                         n |-> call.n + 1, ffmpeg_path |-> None, ffprobe_path |-> None]
    /\ pre' = args
    /\ UNCHANGED <<args, probe>>

\* what `ffmpeg -version` may print after "ffmpeg version ", and its return code
VersionOutputs ==
    { [returncode |-> 0, stdout |-> <<"4", ".", "4", " ">>],
      [returncode |-> 0, stdout |-> <<"5", ".", "1", "-", "u">>],
      [returncode |-> 0, stdout |-> <<"N", "-", "1", "0">>],
      [returncode |-> 0, stdout |-> <<"4", ".", "4", ".", " ">>],
      [returncode |-> 1, stdout |-> <<>>] }

\* the machines find() runs on: which executables exist, what the finder
\* plugins return (<<>>: None) and what each ffmpeg prints
InitPath ==
    /\ args = PathGlobals0
    /\ \E execs \in SUBSET {"ffmpeg", "ffprobe", "/opt/ff/ffmpeg", "/opt/ff/ffprobe"},
          finder \in {<<>>, <<"/plug/ffmpeg", "/plug/ffprobe">>},
          o1 \in VersionOutputs, o2 \in VersionOutputs,
          o3 \in {o \in VersionOutputs : o.stdout \in {<<>>, <<"5", ".", "1", "-", "u">>}} :
          probe = [execs |-> execs, dirs |-> {"/opt/ff"}, os_name |-> "posix",
                   finder |-> finder,
                   out |-> [b \in {"ffmpeg", "/opt/ff/ffmpeg", "/plug/ffmpeg"} |->
                               CASE b = "ffmpeg" -> o1 [] b = "/opt/ff/ffmpeg" -> o2 [] OTHER -> o3]]
    /\ call = [family |-> "path", op |-> "init", n |-> 0, ffmpeg_path |-> None, ffprobe_path |-> None]
    /\ pre = args
    /\ ret = <<>>

NextPath == Call_find \/ Call_found \/ Call_get_ffmpeg

SpecPath == InitPath /\ [][NextPath]_vars

\* both binaries are cached, or neither is
BothOrNeither(g) == Truthy(g.FFMPEG_BIN) <=> Truthy(g.FFPROBE_BIN)

\* C30: after any sequence of find() calls FFMPEG_BIN and FFPROBE_BIN are both
\* set or both unset; a find() that raises leaves FFMPEG_BIN, FFPROBE_BIN and
\* FFMPEG_VER as they were; found() is true exactly when get_ffmpeg() and
\* get_ffmpeg(probe=True) both return without raising
C30_PathCacheConsistent ==
    call.family = "path" =>
        /\ BothOrNeither(args)
        /\ (call.op = "find" /\ ret.err # None) => args = pre
        /\ found(args) <=> (get_ffmpeg(args, FALSE).err = None /\ get_ffmpeg(args, TRUE).err = None)

\* a find() that fails its version query after an earlier find() has cached
\* the paths of another ffmpeg
C30_Witness ==
    /\ call.family = "path"
    /\ call.op = "find"
    /\ call.n = 2
    /\ ret.err = "RuntimeError"
    /\ call.ffmpeg_path = "/opt/ff"
    /\ which(probe, "/opt/ff/ffmpeg") /\ which(probe, "/opt/ff/ffprobe")
    /\ found(args)
    /\ args.FFMPEG_BIN = "ffmpeg"
    /\ args.FFMPEG_VER.kind = "Version"

====
